---- MODULE Spec2Model ----
(***************************************************************************)
(* A model of the file-driven orchestrator: orchestrator.py (the pass run  *)
(* by main, its state document, story selection and the story executor),   *)
(* app/orchestrator/workflow.py (pick_next), app/orchestrator/state.py     *)
(* (load_state) and app/executor/runloop.py (_normalize_paths).            *)
(*                                                                         *)
(* A path is a sequence of tokens.  The characters ".", "/" and "\" are    *)
(* tokens of their own; every other token is a name, a maximal run of      *)
(* characters that holds no separator and does not begin with "." (a       *)
(* leading dot of a segment is a token of its own: ".coveragerc" is        *)
(* <<".", "coveragerc">>).  Character-level string operations of the code  *)
(* (replace, lstrip, startswith, rstrip) act on these tokens exactly as    *)
(* they act on the characters.                                             *)
(***************************************************************************)
EXTENDS Integers, Sequences, FiniteSets, TLC

VARIABLES
    pc,               \* position of the running operation
    backlog,          \* backlog/*.json as parsed objects, in glob order
    overrides,        \* .orchestrator/overrides/*.override.json, parsed
    files,            \* workspace files: path -> content
    disk,             \* .orchestrator/state.json: the text on disk
    state,            \* main's in-memory state document (Null between passes)
    dry,              \* main's dry flag of the running pass
    verif,            \* main's (tests_ok, cov) of the initial verification
    selected_info,    \* main's selected_info
    executor_output,  \* main's executor_output
    blocking,         \* main's list of blocking issues
    clock,            \* what now_iso() returns
    nextToken,        \* the next value uuid.uuid4() returns
    passes,           \* number of passes started
    batch_complete,   \* main's batch_complete
    yaml_importable,  \* whether `import yaml` succeeds in this environment
    suspended,        \* main's variables in a second process that is not running now
    arg,              \* argument of the pure function under check
    ret               \* its result

vars == <<pc, backlog, overrides, files, disk, state, dry, verif, selected_info,
          executor_output, blocking, clock, nextToken, passes, batch_complete,
          yaml_importable, suspended, arg, ret>>

Null == [null |-> TRUE]
None == "None"

Range(s) == {s[i] : i \in 1..Len(s)}

Get(rec, key, default) == IF key \in DOMAIN rec THEN rec[key] ELSE default

SeqsUpTo(S, n) == UNION {[1..k -> S] : k \in 0..n}

(***************************************************************************)
(* Paths                                                                   *)
(***************************************************************************)
BSL == "\\"

\* str.replace("\\", "/")
ReplaceBackslash(p) == [i \in 1..Len(p) |-> IF p[i] = BSL THEN "/" ELSE p[i]]

\* str.lstrip(chars): drops every leading character that is in chars
RECURSIVE lstrip(_, _)
lstrip(p, chars) ==
    IF p # <<>> /\ Head(p) \in chars THEN lstrip(Tail(p), chars) ELSE p

\* str.rstrip(chars)
RECURSIVE rstrip(_, _)
rstrip(p, chars) ==
    IF p # <<>> /\ p[Len(p)] \in chars THEN rstrip(SubSeq(p, 1, Len(p) - 1), chars) ELSE p

\* str.startswith(prefix)
startswith(p, prefix) ==
    Len(prefix) <= Len(p) /\ SubSeq(p, 1, Len(prefix)) = prefix

\* orchestrator.py: p.replace("\\", "/").lstrip("./") for one path
sanitize_path(p) == lstrip(ReplaceBackslash(p), {".", "/"})

sanitize_paths(paths) == [i \in 1..Len(paths) |-> sanitize_path(paths[i])]

\* variant: the leading "./" is kept
normalize_path_keep_dot(p) == ReplaceBackslash(p)

\* runloop.py: the body of the loop of _normalize_paths for one path
normalize_path(p) ==
    LET q == ReplaceBackslash(p)
    IN  IF startswith(q, <<".", "/">>) THEN SubSeq(q, 3, Len(q)) ELSE q

_normalize_paths(paths) == [i \in 1..Len(paths) |-> normalize_path(paths[i])]

\* os.path.basename / os.path.dirname of a relative path with "/" separators
LastSlash(p) ==
    LET S == {i \in 1..Len(p) : p[i] = "/"}
    IN  IF S = {} THEN 0 ELSE CHOOSE i \in S : \A j \in S : j <= i

basename(p) == SubSeq(p, LastSlash(p) + 1, Len(p))

dirname(p) == IF LastSlash(p) = 0 THEN <<>> ELSE SubSeq(p, 1, LastSlash(p) - 1)

\* names f with f.endswith(".py")
PyNames == {"main.py", "mod.py", "util.py", "__init__.py"}

InitPy == <<"__init__.py">>

(***************************************************************************)
(* Program constants                                                       *)
(***************************************************************************)
COVERAGE_TARGET == 95

PROTECTED_INFRA_HINTS ==
    { <<"app", "/", "main.py">>, <<"app", "/", "auth">>, <<"app", "/", "rbac">>,
      <<"app", "/", "logging">>, <<"app", "/", "audit">>, <<"app", "/", "models">>,
      <<"app", "/", "schemas">>, <<"migrations">>, <<"alembic.ini">>,
      <<"pyproject.toml">>, <<"requirements.txt">>, <<"pytest.ini">>,
      <<".", "coveragerc">>, <<"app", "/", "routers">> }

BLOCKED_NEEDS_OVERRIDE == "blocked_needs_override"
OUT_OF_SCOPE_REGRESSION == "out_of_scope_regression"
ENVIRONMENT_MISMATCH == "environment_mismatch"

FIX_GATE_ID == "fix_gate_imports_tests"

(***************************************************************************)
(* The workspace tree.  The executor creates files and never a directory   *)
(* (it writes only where os.path.isdir holds), so the directories are      *)
(* fixed.                                                                  *)
(***************************************************************************)
Dirs == { <<"app">>, <<"app", "/", "x">>, <<"lib">> }

isdir(d) == d = <<>> \/ d \in Dirs

exists(fs, p) == p \in DOMAIN fs \/ p \in Dirs

\* the files directly in directory d
listdir(fs, d) == {p[Len(p)] : p \in {q \in DOMAIN fs : dirname(q) = d}}

\* retry_write(path, data) on the workspace tree
write(fs, p, data) == [q \in DOMAIN fs \cup {p} |-> IF q = p THEN data ELSE fs[q]]

\* sha256_of_file: a checksum identifies the content
sha256_of_file(fs, p) == fs[p]

(***************************************************************************)
(* JSON text.  A text is garbage or an object's members in order; loading  *)
(* builds the object from the members (the last member of a key wins),     *)
(* dumping writes the members in the object's key order.                   *)
(***************************************************************************)
KeyOrder ==
    << "version", "last_updated", "environment_fingerprint", "stories",
       "artifacts_manifest", "coverage_history", "protected_zone", "resume_token",
       "quarantine_tests", "container_fingerprint", "metrics", "role_progress", "foo" >>

Garbage == [valid |-> FALSE]

json_dumps(obj) ==
    LET ks == SelectSeq(KeyOrder, LAMBDA k : k \in DOMAIN obj)
    IN  [valid |-> TRUE, members |-> [i \in 1..Len(ks) |-> <<ks[i], obj[ks[i]]>>]]

json_loads(text) ==
    LET m == text.members
        last(k) == CHOOSE i \in 1..Len(m) :
                       m[i][1] = k /\ \A j \in 1..Len(m) : m[j][1] = k => j <= i
    IN  [k \in {m[i][1] : i \in 1..Len(m)} |-> m[last(k)][2]]

Missing == [kind |-> "missing"]

Text(t) == [kind |-> "text", text |-> t]

\* load_json(STATE_PATH) returns (does not raise)
Loadable(d) == d.kind = "text" /\ d.text.valid

Put(rec, key, val) ==
    [k \in DOMAIN rec \cup {key} |-> IF k = key THEN val ELSE rec[k]]

(***************************************************************************)
(* orchestrator.py: the state document                                     *)
(***************************************************************************)
\* None in a timestamp field (now_iso() is never 0: the clock starts at 1)
NoTime == 0

\* os.walk is top-down: the files of the root first, then each directory
WalkOrder ==
    << <<"__init__.py">>,
       <<"lib", "/", "util.py">>, <<"lib", "/", "__init__.py">>,
       <<"backlog", "/", "b.json">>, <<"backlog", "/", "a.json">>,
       <<"backlog", "/", "c.json">>,
       <<"app", "/", "main.py">>, <<"app", "/", "__init__.py">>,
       <<"app", "/", "x", "/", "mod.py">>, <<"app", "/", "x", "/", "__init__.py">> >>

discover_files(fs) == SelectSeq(WalkOrder, LAMBDA p : p \in DOMAIN fs)

compute_artifacts_manifest(fs) ==
    LET fl == discover_files(fs)
    IN  [i \in 1..Len(fl) |->
            [path |-> ReplaceBackslash(fl[i]), checksum |-> sha256_of_file(fs, fl[i]),
             last_story |-> None]]

default_state(now, tok) ==
    [ version |-> 1,
      last_updated |-> now,
      environment_fingerprint |-> "env_fingerprint",
      stories |-> <<>>,
      artifacts_manifest |-> <<>>,
      coverage_history |-> <<>>,
      protected_zone |-> [paths |-> {}],
      resume_token |-> tok,
      quarantine_tests |-> <<>>,
      container_fingerprint |-> None,
      metrics |-> [throughput |-> 0, error_rate |-> 0],
      role_progress |-> <<>> ]

\* the record load_or_rebuild_state adds for a story id the state does not hold
NewStoryRecord(s) ==
    [ id |-> s.id, status |-> Get(s, "status", "ready"), attempts |-> 0,
      started_at |-> NoTime, completed_at |-> NoTime,
      assigned_role |-> Get(s, "assigned_role", None) ]

\* lines 279-292 with the branch of line 286 always taken: every record is built
\* from the backlog file
StoriesOfStateFileWins(bl, old) ==
    LET withId == SelectSeq(bl, LAMBDA s : Get(s, "id", "") # "")
    IN  [i \in 1..Len(withId) |-> NewStoryRecord(withId[i])]

\* the records of the state document; state_ids keeps the last record of an id
StoriesOfState(bl, old) ==
    LET withId  == SelectSeq(bl, LAMBDA s : Get(s, "id", "") # "")
        idx     == {i \in 1..Len(old) : "id" \in DOMAIN old[i]}
        tracked == {old[i].id : i \in idx}
        state_ids(sid) ==
            old[CHOOSE i \in idx : old[i].id = sid /\ \A j \in idx : old[j].id = sid => j <= i]
    IN  [i \in 1..Len(withId) |->
            IF withId[i].id \notin tracked THEN NewStoryRecord(withId[i])
            ELSE state_ids(withId[i].id)]

ProtectedZone(st) ==
    LET declared == Get(Get(st, "protected_zone", [paths |-> {}]), "paths", {})
        man      == Get(st, "artifacts_manifest", <<>>)
        delivered ==
            {man[i].path : i \in {j \in 1..Len(man) :
                /\ Get(man[j], "last_story", None) # None
                /\ \E k \in 1..Len(st.stories) :
                      /\ st.stories[k].id = man[j].last_story
                      /\ Get(st.stories[k], "status", None) = "done"}}
    IN  {sanitize_path(p) : p \in declared}
            \cup delivered
            \cup {ReplaceBackslash(h) : h \in PROTECTED_INFRA_HINTS}

\* the state of load_or_rebuild_state's result (the stories are the backlog)
load_or_rebuild_state(d, bl, fs, now, tok) ==
    LET state0 == IF Loadable(d) THEN json_loads(d.text)
                  ELSE [default_state(now, tok) EXCEPT
                            !.artifacts_manifest = compute_artifacts_manifest(fs)]
        state1 == Put(state0, "stories", StoriesOfState(bl, Get(state0, "stories", <<>>)))
    IN  Put(state1, "protected_zone", [paths |-> ProtectedZone(state1)])

\* variant: the document is written only if the file is absent
save_state_if_absent(st, now) ==
    IF disk = Missing THEN Text(json_dumps([st EXCEPT !.last_updated = now])) ELSE disk

\* save_state's text
save_state(st, now) == Text(json_dumps([st EXCEPT !.last_updated = now]))

mark_state_story(st, story_id, status, assigned_role, inc_attempts, now) ==
    LET list  == st.stories
        list1 == IF \E i \in 1..Len(list) : list[i].id = story_id THEN list
                 ELSE Append(list, [ id |-> story_id, status |-> status, attempts |-> 0,
                                     started_at |-> NoTime, completed_at |-> NoTime,
                                     assigned_role |-> assigned_role ])
        k  == CHOOSE i \in 1..Len(list1) :
                  list1[i].id = story_id /\ \A j \in 1..(i - 1) : list1[j].id # story_id
        f1 == [list1[k] EXCEPT !.status = status]
        f2 == IF inc_attempts
              THEN [f1 EXCEPT !.attempts = @ + 1,
                              !.started_at = IF @ = NoTime THEN now ELSE @]
              ELSE f1
        f3 == IF status = "done" THEN [f2 EXCEPT !.completed_at = now] ELSE f2
        f4 == IF assigned_role # None THEN [f3 EXCEPT !.assigned_role = assigned_role] ELSE f3
    IN  [st EXCEPT !.stories = [list1 EXCEPT ![k] = f4]]

(***************************************************************************)
(* orchestrator.py: story selection                                        *)
(***************************************************************************)
normalize_story(story) ==
    LET d(rec, k, v) == IF k \in DOMAIN rec THEN rec ELSE Put(rec, k, v)
    IN  d(d(d(d(d(story, "priority", 99), "dependencies", <<>>), "status", "ready"),
            "allowed_paths", <<>>), "risk_level", "medium")

\* ready.sort(key=lambda x: int(x.get("priority", 99))): stable, so of the
\* stories with the least priority the first in the list comes first
RECURSIVE sort_by_priority(_)
sort_by_priority(seq) ==
    IF seq = <<>> THEN <<>>
    ELSE LET key(x) == Get(x, "priority", 99)
             i == CHOOSE i \in 1..Len(seq) :
                      /\ \A j \in 1..Len(seq) : key(seq[i]) <= key(seq[j])
                      /\ \A j \in 1..(i - 1) : key(seq[j]) > key(seq[i])
         IN  <<seq[i]>> \o sort_by_priority(SubSeq(seq, 1, i - 1) \o SubSeq(seq, i + 1, Len(seq)))

FixGateStory ==
    [ id |-> FIX_GATE_ID, title |-> "Fix Gate: import/test stability", priority |-> 0,
      status |-> "ready", dependencies |-> <<>>, allowed_paths |-> <<>>,
      risk_level |-> "medium", auto_generated |-> TRUE,
      assigned_role |-> "QA Engineer/Tester" ]

\* status_map.get(sid, default)
StatusOf(st, sid, default) ==
    LET list == Get(st, "stories", <<>>)
        idx  == {i \in 1..Len(list) : list[i].id = sid}
    IN  IF idx = {} THEN default
        ELSE Get(list[CHOOSE i \in idx : \A j \in idx : j <= i], "status", "ready")

\* all(status_map.get(d, "done") == "done" for d in deps)
DepsSatisfied(st, deps) ==
    \A i \in 1..Len(deps) : StatusOf(st, deps[i], "done") = "done"

\* the list `ready` with the status test of line 369 left out
ReadyListAnyStatus(st, stories) ==
    LET story_map == [i \in 1..Len(stories) |-> normalize_story(stories[i])]
    IN  SelectSeq(story_map, LAMBDA s : DepsSatisfied(st, s.dependencies))

\* the list `ready` of pick_next_story, in story_map order
ReadyList(st, stories) ==
    LET story_map == [i \in 1..Len(stories) |-> normalize_story(stories[i])]
    IN  SelectSeq(story_map, LAMBDA s :
            /\ StatusOf(st, s.id, s.status) = "ready"
            /\ DepsSatisfied(st, s.dependencies))

\* pick_next_story with the fix-gate branch of lines 346-362 left out
pick_next_story_no_gate(st, stories, gate) ==
    LET ready == ReadyList(st, SelectSeq(stories, LAMBDA s : Get(s, "id", "") # ""))
    IN  IF ready = <<>> THEN Null
        ELSE [chosen |-> sort_by_priority(ready)[1], reason |-> "priority"]

pick_next_story(st, stories, fix_gate_needed) ==
    IF fix_gate_needed THEN [chosen |-> FixGateStory, reason |-> "fix-gate"]
    ELSE LET ready == ReadyList(st, SelectSeq(stories, LAMBDA s : Get(s, "id", "") # ""))
         IN  IF ready = <<>> THEN Null
             ELSE [chosen |-> sort_by_priority(ready)[1],
                   reason |-> "priority"]

(***************************************************************************)
(* orchestrator.py: the story executor                                     *)
(***************************************************************************)
\* run_pytest_and_coverage on the exit code and the coverage of the run
run_pytest_and_coverage(code, cov) ==
    [ok |-> (code = 0) /\ (cov >= COVERAGE_TARGET), cov |-> cov]

\* the directories os.walk visits, top-down
DirWalkOrder == << <<"lib">>, <<"app">>, <<"app", "/", "x">> >>

FixGateBases == {"app", "tests", "test"}

\* the directories under app/, tests/, test/ that hold a .py file
FixGateDirs(fs) ==
    SelectSeq(DirWalkOrder, LAMBDA d :
        d[1] \in FixGateBases /\ listdir(fs, d) \cap PyNames # {})

derive_allowed_for_fix_gate(fs) ==
    {FixGateDirs(fs)[i] \o <<"/">> \o InitPy : i \in 1..Len(FixGateDirs(fs))}

\* ensure_init_py over the walk: the tree after it and the touched list
apply_minimal_plan_for_fix_gate(fs, dryflag) ==
    LET ds      == FixGateDirs(fs)
        missing == SelectSeq(ds, LAMBDA d : ~exists(fs, d \o <<"/">> \o InitPy))
        touched == [i \in 1..Len(missing) |-> missing[i] \o <<"/">> \o InitPy]
    IN  [ fs |-> IF dryflag THEN fs
                 ELSE [q \in DOMAIN fs \cup Range(touched) |->
                          IF q \in Range(touched) THEN "fix_gate_marker" ELSE fs[q]],
          touched |-> touched ]

\* an override grants the path or a path enclosing it
ok_by_override(pp, ovs) ==
    \E sid \in DOMAIN ovs : \E k \in 1..Len(Get(ovs[sid], "allow_paths", <<>>)) :
        LET ap == ReplaceBackslash(ovs[sid].allow_paths[k])
        IN  pp = ap \/ startswith(pp, rstrip(ap, {"/"}) \o <<"/">>)

\* the second loop of the normal story: create the missing __init__.py files
RECURSIVE apply_allowed(_, _, _, _)
apply_allowed(allowed, fs, touched, dryflag) ==
    IF allowed = <<>> THEN [fs |-> fs, touched |-> touched]
    ELSE LET p    == Head(allowed)
             hit  == /\ basename(p) = InitPy
                     /\ isdir(dirname(p))
                     /\ ~exists(fs, p)
             fs1  == IF hit /\ ~dryflag THEN write(fs, p, "story_marker") ELSE fs
             t1   == IF hit THEN Append(touched, ReplaceBackslash(p)) ELSE touched
         IN  apply_allowed(Tail(allowed), fs1, t1, dryflag)

\* a list without its repetitions, in first-occurrence order (the keys of a dict)
RECURSIVE Dedup(_)
Dedup(seq) ==
    IF seq = <<>> THEN <<>>
    ELSE LET r == Dedup(SubSeq(seq, 1, Len(seq) - 1))
         IN  IF seq[Len(seq)] \in Range(r) THEN r ELSE Append(r, seq[Len(seq)])

\* the first allowed path the protected-path gate stops at (0: none)
FirstBlocked(allowed, ovs, protected) ==
    LET B == {i \in 1..Len(allowed) :
                 /\ ReplaceBackslash(allowed[i]) \in protected
                 /\ ~ok_by_override(ReplaceBackslash(allowed[i]), ovs)}
    IN  IF B = {} THEN 0 ELSE CHOOSE i \in B : \A j \in B : i <= j

\* variant: the error rate taken from the coverage verdict
metrics_update_by_coverage(tests_ok, coverage_ok) ==
    [throughput |-> IF tests_ok /\ coverage_ok THEN 1 ELSE 0,
     error_rate |-> IF coverage_ok THEN 0 ELSE 1]

\* line 596: the metrics delta of an executed story
metrics_update(tests_ok, coverage_ok) ==
    [throughput |-> IF tests_ok /\ coverage_ok THEN 1 ELSE 0,
     error_rate |-> IF tests_ok THEN 0 ELSE 1]

\* executor_for_story: the output and the workspace tree after it
executor_for_story(story, dryflag, ovs, protected, fs, code, cov, tok) ==
    LET sid     == story.id
        allowed == sanitize_paths(Get(story, "allowed_paths", <<>>))
        fixgate == sid = FIX_GATE_ID
        b       == IF fixgate THEN 0 ELSE FirstBlocked(allowed, ovs, protected)
        fg      == apply_minimal_plan_for_fix_gate(fs, dryflag)
        applied == IF fixgate
                   THEN [ fs |-> fg.fs,
                          touched |-> SelectSeq(fg.touched, LAMBDA f :
                                          f \in derive_allowed_for_fix_gate(fs)) ]
                   ELSE apply_allowed(allowed, fs, <<>>, dryflag)
        touched_files == applied.touched
        t       == run_pytest_and_coverage(code, cov)
        coverage_ok == t.cov >= COVERAGE_TARGET
        present == SelectSeq(Dedup(touched_files), LAMBDA f : exists(applied.fs, f))
        checksums == [i \in 1..Len(present) |->
                         <<present[i], sha256_of_file(applied.fs, present[i])>>]
    IN  IF b # 0
        THEN [ out |-> [ change_set |-> [files |-> <<>>],
                         testing_report |-> [ran |-> FALSE, ok |-> FALSE],
                         verification |-> [coverage_ok |-> FALSE, coverage |-> 0,
                                           tests_ok |-> FALSE],
                         checkpoint |-> [touched |-> <<>>, checksums |-> <<>>,
                                         resume_token |-> tok],
                         metrics_update |-> [throughput |-> 0, error_rate |-> 1],
                         classification |-> BLOCKED_NEEDS_OVERRIDE,
                         blocked_path |-> ReplaceBackslash(allowed[b]) ],
               fs |-> fs ]
        ELSE [ out |-> [ change_set |-> [files |-> touched_files],
                         testing_report |-> [ran |-> TRUE, ok |-> t.ok],
                         verification |-> [coverage_ok |-> coverage_ok, coverage |-> t.cov,
                                           tests_ok |-> t.ok],
                         checkpoint |-> [touched |-> touched_files, checksums |-> checksums,
                                         resume_token |-> tok],
                         metrics_update |-> metrics_update(t.ok, coverage_ok),
                         classification |->
                             IF t.ok /\ coverage_ok THEN None ELSE OUT_OF_SCOPE_REGRESSION ],
               fs |-> applied.fs ]

(***************************************************************************)
(* orchestrator.py: main, one orchestration pass in four steps             *)
(***************************************************************************)
MaxPasses == 2

ExitCodes == {0, 1}

Coverages == {94, 95}

\* state["last_updated"] = now_iso() of save_state
Stamp(st, now) == [st EXCEPT !.last_updated = now]

\* names of backlog files with the extension .yml or .yaml
YamlNames == {"c.yml"}

\* lines 304-313: the fourth result of load_or_rebuild_state
missing_pkgs(fs, importable) ==
    IF (listdir(fs, <<"backlog">>) \cap YamlNames # {}) /\ ~importable
    THEN <<"pyyaml">> ELSE <<>>

\* lines 679-708: load or rebuild the state, run the initial verification
Load ==
    /\ pc = "idle"
    /\ passes < MaxPasses
    /\ \E d \in BOOLEAN, code \in ExitCodes, cov \in Coverages :
          /\ dry' = d
          /\ verif' = run_pytest_and_coverage(code, cov)
    /\ clock' = clock + 1
    /\ state' = load_or_rebuild_state(disk, backlog, files, clock', nextToken)
    /\ nextToken' = IF Loadable(disk) THEN nextToken ELSE nextToken + 1
    /\ passes' = passes + 1
    /\ blocking' = IF missing_pkgs(files, yaml_importable) # <<>>
                   THEN <<[id |-> "env_yaml_missing", code |-> ENVIRONMENT_MISMATCH]>>
                   ELSE <<>>
    /\ selected_info' = Null
    /\ executor_output' = Null
    /\ batch_complete' = FALSE
    /\ pc' = "loaded"
    /\ UNCHANGED <<yaml_importable, suspended, backlog, overrides, files, disk, arg, ret>>

fix_gate_needed == ~verif.ok \/ verif.cov < COVERAGE_TARGET

\* lines 710-727: select, mark in_progress, save
Select ==
    /\ pc = "loaded"
    /\ LET sel == pick_next_story(state, backlog, fix_gate_needed)
       IN  /\ selected_info' = sel
           /\ IF sel # Null
              THEN LET marked == mark_state_story(state, sel.chosen.id, "in_progress",
                                     Get(sel.chosen, "assigned_role", None), TRUE, clock)
                   IN  /\ state' = Stamp(marked, clock)
                       /\ disk' = save_state(marked, clock)
                       /\ pc' = "selected"
              ELSE /\ pc' = "executed"
                   /\ UNCHANGED <<state, disk>>
    /\ UNCHANGED <<yaml_importable, suspended, backlog, overrides, files, dry, verif, executor_output, blocking,
                   clock, nextToken, passes, batch_complete, arg, ret>>

\* lines 755-766: the artifacts update for one (file, checksum) after another
RECURSIVE update_artifacts(_, _, _)
update_artifacts(manifest, checksums, sid) ==
    IF checksums = <<>> THEN manifest
    ELSE LET path_norm == ReplaceBackslash(Head(checksums)[1])
             chk  == Head(checksums)[2]
             hits == {i \in 1..Len(manifest) : manifest[i].path = path_norm}
             m1   == IF hits # {}
                     THEN LET i == CHOOSE i \in hits : \A j \in hits : i <= j
                          IN  [manifest EXCEPT ![i] = [@ EXCEPT !.checksum = chk,
                                                                !.last_story = sid]]
                     ELSE Append(manifest, [path |-> path_norm, checksum |-> chk,
                                            last_story |-> sid])
         IN  update_artifacts(m1, Tail(checksums), sid)

\* lines 731-771: what main records of the executor's output
record_outcome(st, sid, out, now) ==
    IF out.classification = BLOCKED_NEEDS_OVERRIDE
    THEN mark_state_story(st, sid, "blocked", None, FALSE, now)
    ELSE LET s1 == mark_state_story(st, sid,
                       IF out.verification.tests_ok /\ out.verification.coverage_ok
                       THEN "done" ELSE "blocked", None, FALSE, now)
         IN  [s1 EXCEPT
                !.metrics = [throughput |-> @.throughput + out.metrics_update.throughput,
                             error_rate |-> out.metrics_update.error_rate],
                !.artifacts_manifest = update_artifacts(@, out.checkpoint.checksums, sid),
                !.coverage_history =
                    Append(@, [timestamp |-> now, percent |-> out.verification.coverage]),
                !.resume_token = out.checkpoint.resume_token]

\* lines 728-771: run the executor on the chosen story, record the outcome, save
Execute ==
    /\ pc = "selected"
    /\ \E code \in ExitCodes, cov \in Coverages :
          LET sid == selected_info.chosen.id
              r   == executor_for_story(selected_info.chosen, dry, overrides,
                                        state.protected_zone.paths, files, code, cov,
                                        nextToken)
              st1 == record_outcome(state, sid, r.out, clock)
          IN  /\ executor_output' = r.out
              /\ files' = r.fs
              /\ blocking' = IF r.out.classification = BLOCKED_NEEDS_OVERRIDE
                             THEN Append(blocking, [id |-> sid, code |-> BLOCKED_NEEDS_OVERRIDE])
                             ELSE blocking
              /\ state' = Stamp(st1, clock)
              /\ disk' = save_state(st1, clock)
    /\ nextToken' = nextToken + 1
    /\ pc' = "executed"
    /\ UNCHANGED <<yaml_importable, suspended, backlog, overrides, dry, verif, selected_info, clock, passes,
                   batch_complete, arg, ret>>

\* lines 793-853: batch_complete, the coverage blocking issue, the printed output
Report ==
    /\ pc = "executed"
    /\ LET all_ready_done ==
               \A i \in 1..Len(backlog) :
                   StatusOf(state, backlog[i].id, Get(backlog[i], "status", "ready")) # "ready"
           complete == all_ready_done /\ verif.cov >= COVERAGE_TARGET
           tests_ok == IF executor_output # Null
                          /\ executor_output.classification # BLOCKED_NEEDS_OVERRIDE
                       THEN executor_output.verification.tests_ok ELSE verif.ok
       IN  /\ batch_complete' = complete
           /\ blocking' = IF ~complete /\ blocking = <<>>
                             /\ (~tests_ok \/ verif.cov < COVERAGE_TARGET)
                          THEN Append(blocking, [id |-> "coverage_or_tests",
                                                 code |-> OUT_OF_SCOPE_REGRESSION])
                          ELSE blocking
    /\ state' = Null
    /\ pc' = "idle"
    /\ UNCHANGED <<yaml_importable, suspended, backlog, overrides, files, disk, dry, verif, selected_info,
                   executor_output, clock, nextToken, passes, arg, ret>>

PureIdle == arg = Null /\ ret = Null

(***************************************************************************)
(* The workspaces the passes start from                                    *)
(***************************************************************************)
Title(id) == IF id = "A" THEN "Alpha" ELSE IF id = "B" THEN "Bravo" ELSE "Charlie"

SourceFile(id) ==
    IF id = "A" THEN <<"backlog", "/", "a.json">>
    ELSE IF id = "B" THEN <<"backlog", "/", "b.json">> ELSE <<"backlog", "/", "c.json">>

Story(id, prio, st, deps, paths) ==
    [ id |-> id, title |-> Title(id), priority |-> prio, status |-> st,
      dependencies |-> deps, allowed_paths |-> paths, _source_file |-> SourceFile(id) ]

P_init_x == <<"app", "/", "x", "/", "__init__.py">>
P_init_x_bs == <<"app", BSL, "x", BSL, "__init__.py">>
P_init_lib == <<".", "/", "lib", "/", "__init__.py">>
P_init_nodir == <<"nodir", "/", "__init__.py">>
P_init_dotlib == <<".", "lib", "/", "__init__.py">>
P_main == <<"app", "/", "main.py">>
P_coveragerc == <<".", "coveragerc">>
P_pytest_ini == <<".", "/", "pytest.ini">>

BaseTree ==
    LET F == { <<"app", "/", "__init__.py">>, <<"app", "/", "main.py">>,
               <<"app", "/", "x", "/", "mod.py">>, <<"lib", "/", "util.py">> }
    IN  [p \in F |-> "original"]

\* the tree with the backlog's files in it
TreeOf(bl) ==
    LET B == {bl[i]._source_file : i \in 1..Len(bl)}
    IN  [p \in DOMAIN BaseTree \cup B |-> IF p \in B THEN "story_file" ELSE BaseTree[p]]

Override(sid, paths) == [story_id |-> sid, allow_paths |-> paths]

NoOverrides == [s \in {} |-> Null]

OverridesFor(sid, paths) == [s \in {sid} |-> Override(sid, paths)]

Backlogs ==
    LET As == {Story("A", prio, "ready", <<>>, paths) :
                   prio \in {0, 1}, paths \in {<<P_init_x>>, <<P_main>>}}
        Bs == {Story("B", 1, st, deps, <<>>) :
                   st \in {"ready", "done"}, deps \in {<<>>, <<"A">>}}
    IN  {<<b, a>> : a \in As, b \in Bs}

Init ==
    /\ pc = "idle"
    /\ backlog \in Backlogs
    /\ overrides \in {NoOverrides, OverridesFor("A", <<P_main>>)}
    /\ files = TreeOf(backlog)
    /\ disk \in {Missing}
    /\ state = Null
    /\ dry = FALSE
    /\ verif = Null
    /\ selected_info = Null
    /\ executor_output = Null
    /\ blocking = <<>>
    /\ clock = 1
    /\ nextToken = 1
    /\ passes = 0
    /\ batch_complete = FALSE
    /\ yaml_importable = TRUE
    /\ suspended = Null
    /\ PureIdle

Next == Load \/ Select \/ Execute \/ Report

Spec == Init /\ [][Next]_vars

(***************************************************************************)
(* The pass entered at a later step: the executor alone on a story the     *)
(* pass has selected, and the selection alone on a state just loaded.      *)
(***************************************************************************)
\* the variables of a pass that has loaded `d` and drawn the verification v
Loaded(d, v) ==
    /\ disk = d
    /\ clock = 2
    /\ state = load_or_rebuild_state(d, backlog, files, 2, 1)
    /\ nextToken = IF Loadable(d) THEN 1 ELSE 2
    /\ verif = v
    /\ passes = 1
    /\ blocking = <<>>
    /\ executor_output = Null
    /\ batch_complete = FALSE

\* a state document the operator has declared protected paths in
DeclaredState(paths) ==
    Text(json_dumps([default_state(1, 0) EXCEPT !.protected_zone = [paths |-> paths]]))

MaxAllowed == 2

AllowedUniverse ==
    {P_init_x, P_init_x_bs, P_init_lib, P_init_nodir, P_init_dotlib, P_main, P_coveragerc,
     P_pytest_ini}

OverrideRegistries ==
    {NoOverrides} \cup
    {OverridesFor(sid, <<ap>>) :
        sid \in {"A", "B"}, ap \in {P_main, <<"app">>, <<"lib", "/">>}}

InitExec ==
    /\ pc = "selected"
    /\ \E paths \in SeqsUpTo(AllowedUniverse, MaxAllowed) :
          backlog = <<Story("A", 1, "ready", <<>>, paths)>>
    /\ overrides \in OverrideRegistries
    /\ files = TreeOf(backlog)
    /\ dry \in BOOLEAN
    /\ \E d \in {Missing, DeclaredState({<<"lib", "/", "__init__.py">>})} :
          LET st0 == load_or_rebuild_state(d, backlog, files, 2, 1)
              sel == pick_next_story(st0, backlog, FALSE)
              st1 == mark_state_story(st0, "A", "in_progress", None, TRUE, 2)
          IN  /\ selected_info = sel
              /\ state = Stamp(st1, 2)
              /\ disk = save_state(st1, 2)
              /\ nextToken = IF Loadable(d) THEN 1 ELSE 2
    /\ clock = 2
    /\ verif = run_pytest_and_coverage(0, 95)
    /\ passes = 1
    /\ blocking = <<>>
    /\ executor_output = Null
    /\ batch_complete = FALSE
    /\ yaml_importable = TRUE
    /\ suspended = Null
    /\ PureIdle

SpecExec == InitExec /\ [][Execute]_vars

SelectBacklogs ==
    LET S(id) == {Story(id, prio, st, deps, <<>>) :
                     prio \in {1, 2}, st \in {"ready", "done", "blocked"},
                     deps \in {<<>>, <<"Z">>, <<IF id = "A" THEN "B" ELSE "A">>}}
    IN  {<<a, b>> : a \in S("A"), b \in S("B")} \cup {<<b, a>> : a \in S("A"), b \in S("B")}

InitSelect ==
    /\ pc = "loaded"
    /\ backlog \in SelectBacklogs
    /\ overrides = NoOverrides
    /\ files = TreeOf(backlog)
    /\ dry = FALSE
    /\ selected_info = Null
    /\ \E code \in ExitCodes : Loaded(Missing, run_pytest_and_coverage(code, 95))
    /\ yaml_importable = TRUE
    /\ suspended = Null
    /\ PureIdle

SpecSelect == InitSelect /\ [][Select]_vars

(***************************************************************************)
(* Claims about the executor and the selection                             *)
(***************************************************************************)
\* the story the executor ran on, as the backlog file declares it
ExecutedStory == selected_info.chosen

\* the overrides whose story_id is sid
OverridesOf(sid) ==
    [s \in {t \in DOMAIN overrides : overrides[t].story_id = sid} |-> overrides[s]]

\* C1: a non-fix-gate story with an allowed path in the protected set that no
\* override covers is blocked: classification blocked_needs_override, no touched
\* file, testing not run, and the workspace tree as it was.
C1_ProtectedConflictBlocks ==
    ( /\ pc = "executed"
      /\ ExecutedStory.id # FIX_GATE_ID
      /\ \E i \in 1..Len(ExecutedStory.allowed_paths) :
            LET pp == ExecutedStory.allowed_paths[i]
            IN  pp \in state.protected_zone.paths /\ ~ok_by_override(pp, overrides) )
    => /\ executor_output.classification = BLOCKED_NEEDS_OVERRIDE
       /\ executor_output.change_set.files = <<>>
       /\ executor_output.testing_report.ran = FALSE
       /\ files = TreeOf(backlog)

\* C2: an override lets only the story it names pass the protected-path gate: a
\* story with a protected allowed path that no override of its own covers is
\* blocked, whatever the overrides of other stories grant.
C2_OverrideOnlyForItsStory ==
    ( /\ pc = "executed"
      /\ ExecutedStory.id # FIX_GATE_ID
      /\ \E i \in 1..Len(ExecutedStory.allowed_paths) :
            LET pp == sanitize_path(ExecutedStory.allowed_paths[i])
            IN  /\ pp \in state.protected_zone.paths
                /\ ~ok_by_override(pp, OverridesOf(ExecutedStory.id)) )
    => executor_output.classification = BLOCKED_NEEDS_OVERRIDE

\* C7: the orchestrator never selects (fix-gate not needed) a story that lists
\* a dependency id without a status record.
C7_AbsentDependencyUnsatisfied ==
    (pc = "selected" /\ selected_info.reason = "priority")
    => \A i \in 1..Len(selected_info.chosen.dependencies) :
          \E k \in 1..Len(state.stories) :
              state.stories[k].id = selected_info.chosen.dependencies[i]

TitleRank(t) == IF t = "Alpha" THEN 1 ELSE IF t = "Bravo" THEN 2 ELSE 3

\* (priority, title) of a comes no later than that of b
PriorityTitleLeq(a, b) ==
    \/ a.priority < b.priority
    \/ a.priority = b.priority /\ TitleRank(a.title) <= TitleRank(b.title)

\* C8: the story selected (fix-gate not needed) is the first eligible story in
\* (priority ascending, title ascending) order, whatever the order the backlog
\* files were enumerated in.
C8_PriorityThenTitleOrder ==
    (pc = "selected" /\ selected_info.reason = "priority")
    => \A i \in 1..Len(ReadyList(state, backlog)) :
          PriorityTitleLeq(selected_info.chosen, ReadyList(state, backlog)[i])

(***************************************************************************)
(* Claims about the passes                                                 *)
(***************************************************************************)
BacklogIds == {backlog[i].id : i \in 1..Len(backlog)}

\* the story records of the state document on disk
PersistedStories(d) == IF Loadable(d) THEN Get(json_loads(d.text), "stories", <<>>) ELSE <<>>

\* the status the orchestrator reads for a backlog story: the persisted record's
\* if there is one, the backlog file's otherwise (lines 365-369)
CurrentStatus(d, s) ==
    StatusOf([stories |-> PersistedStories(d)], s.id, Get(s, "status", "ready"))

\* C4: in a pass whose initial verification failed, the selection picks the
\* fix-gate story, and neither the selection nor the execution changes the status
\* of a backlog story, in memory or on disk.
C4_FixGateFirst ==
    [][ (pc \in {"loaded", "selected"} /\ fix_gate_needed)
        => /\ pc = "loaded" =>
                 /\ selected_info' # Null
                 /\ selected_info'.chosen.id = FIX_GATE_ID
                 /\ selected_info'.chosen.id \notin BacklogIds
           /\ \A i \in 1..Len(backlog) :
                 /\ StatusOf(state', backlog[i].id, None) = StatusOf(state, backlog[i].id, None)
                 /\ CurrentStatus(disk', backlog[i]) = StatusOf(state, backlog[i].id, None)
      ]_vars

\* a pass has run the fix-gate although a backlog story of priority 0 was ready
C4_Witness ==
    /\ pc = "executed"
    /\ selected_info # Null
    /\ selected_info.chosen.id = FIX_GATE_ID
    /\ \E i \in 1..Len(backlog) :
          /\ backlog[i].priority = 0
          /\ backlog[i].dependencies = <<>>
          /\ CurrentStatus(disk, backlog[i]) = "ready"

VerificationPassed(out) == out.verification.tests_ok /\ out.verification.coverage_ok

\* C5: the status of a backlog story changes on disk only from ready to
\* in_progress (the story was selected), from in_progress to done (the executor's
\* verification passed) or from in_progress to blocked (the verification failed or
\* the protected-path gate blocked the story).
C5_StatusTransitions ==
    [][ \A i \in 1..Len(backlog) :
          LET a == CurrentStatus(disk, backlog[i])
              b == CurrentStatus(disk', backlog[i])
          IN  a # b =>
                \/ /\ a = "ready" /\ b = "in_progress"
                   /\ pc = "loaded"
                   /\ selected_info'.chosen.id = backlog[i].id
                \/ /\ a = "in_progress" /\ b = "done"
                   /\ pc = "selected"
                   /\ executor_output'.classification # BLOCKED_NEEDS_OVERRIDE
                   /\ VerificationPassed(executor_output')
                \/ /\ a = "in_progress" /\ b = "blocked"
                   /\ pc = "selected"
                   /\ \/ executor_output'.classification = BLOCKED_NEEDS_OVERRIDE
                      \/ ~VerificationPassed(executor_output')
      ]_vars

\* after two passes one story is done and the other blocked
C5_Witness ==
    /\ passes = 2
    /\ pc = "executed"
    /\ \E i, j \in 1..Len(backlog) :
          /\ backlog[i].status = "ready" /\ CurrentStatus(disk, backlog[i]) = "done"
          /\ backlog[j].status = "ready" /\ CurrentStatus(disk, backlog[j]) = "blocked"

\* C9: after load_or_rebuild_state the state holds exactly one record per backlog
\* story id and no other record, and the record of an id the persisted state
\* tracks is the persisted record, whatever the backlog file declares.
C9_OneRecordPerStory ==
    pc = "loaded" =>
        /\ Len(state.stories) = Len(backlog)
        /\ \A i \in 1..Len(backlog) :
              Cardinality({k \in 1..Len(state.stories) :
                              state.stories[k].id = backlog[i].id}) = 1
        /\ \A k \in 1..Len(PersistedStories(disk)) :
              PersistedStories(disk)[k].id \in BacklogIds
              => \E j \in 1..Len(state.stories) : state.stories[j] = PersistedStories(disk)[k]

\* a pass has loaded a state that tracks a story as done with one attempt, while
\* the story's backlog file still declares it ready
C9_Witness ==
    /\ pc = "loaded"
    /\ \E i \in 1..Len(backlog), k \in 1..Len(PersistedStories(disk)) :
          /\ PersistedStories(disk)[k].id = backlog[i].id
          /\ backlog[i].status = "ready"
          /\ PersistedStories(disk)[k].status = "done"
          /\ PersistedStories(disk)[k].attempts = 1
          /\ \E j \in 1..Len(state.stories) : state.stories[j] = PersistedStories(disk)[k]

(***************************************************************************)
(* The two path normalisers, called on the same path                       *)
(***************************************************************************)
\* the variables of the pass, at rest while a function is called on its own
PassAtRest ==
    /\ backlog = <<>>
    /\ suspended = Null
    /\ yaml_importable = TRUE
    /\ overrides = NoOverrides
    /\ state = Null
    /\ dry = FALSE
    /\ verif = Null
    /\ selected_info = Null
    /\ executor_output = Null
    /\ blocking = <<>>
    /\ batch_complete = FALSE

MaxPathLen == 3

PathChars == {".", "/", BSL, "coveragerc", "pytest.ini"}

InitNorm ==
    /\ pc = "norm_call"
    /\ arg \in SeqsUpTo(PathChars, MaxPathLen)
    /\ ret = Null
    /\ files = BaseTree
    /\ disk = Missing
    /\ clock = 1
    /\ nextToken = 1
    /\ passes = 0
    /\ PassAtRest

\* sanitize_paths([arg]) and _normalize_paths([arg])
NormalizeCall ==
    /\ pc = "norm_call"
    /\ ret' = [sanitize |-> sanitize_paths(<<arg>>), normalize |-> _normalize_paths(<<arg>>)]
    /\ pc' = "norm_return"
    /\ UNCHANGED <<yaml_importable, suspended, backlog, overrides, files, disk, state, dry, verif, selected_info,
                   executor_output, blocking, clock, nextToken, passes, batch_complete, arg>>

SpecNorm == InitNorm /\ [][NormalizeCall]_vars

\* C3: sanitize_paths and _normalize_paths give the same result for every path.
C3_SameNormalisation ==
    pc = "norm_return" => ret.sanitize = ret.normalize

(***************************************************************************)
(* workflow.py: pick_next                                                  *)
(***************************************************************************)
\* _deps_satisfied with status_index.get(dep, "done")
_deps_satisfied_absent_done(story, status_index) ==
    LET deps == Get(story, "dependencies", <<>>)
    IN  \A i \in 1..Len(deps) :
            deps[i] \in DOMAIN status_index => status_index[deps[i]] = "done"

\* status_index.get(dep) != "done" for no dep
_deps_satisfied(story, status_index) ==
    LET deps == Get(story, "dependencies", <<>>)
    IN  \A i \in 1..Len(deps) :
            deps[i] \in DOMAIN status_index /\ status_index[deps[i]] = "done"

\* {s["id"]: s.get("status", "ready") for s in stories}: the last story of an id wins
StatusIndex(stories) ==
    [id \in {stories[i].id : i \in 1..Len(stories)} |->
        LET idx == {i \in 1..Len(stories) : stories[i].id = id}
        IN  Get(stories[CHOOSE i \in idx : \A j \in idx : j <= i], "status", "ready")]

pick_next(stories) ==
    IF stories = <<>> THEN Null
    ELSE LET status_index == StatusIndex(stories)
             candidates == SelectSeq(stories, LAMBDA s :
                               /\ Get(s, "status", None) = "ready"
                               /\ _deps_satisfied(s, status_index))
         IN  IF candidates = <<>> THEN Null ELSE candidates[1]

MaxListLen == 2

PickIds == {"A", "B", "C"}

PickStories(id) ==
    {Story(id, 1, st, deps, <<>>) :
        st \in {"ready", "in_progress", "done"},
        deps \in {<<>>, <<"A">>, <<"B">>, <<"Z">>}}

\* the lists of at most MaxListLen stories of distinct ids
PickLists ==
    {l \in UNION {[1..k -> UNION {PickStories(id) : id \in PickIds}] : k \in 0..MaxListLen} :
        \A i, j \in 1..Len(l) : l[i].id = l[j].id => i = j}

InitPick ==
    /\ pc = "pick_call"
    /\ arg \in PickLists
    /\ ret = Null
    /\ files = BaseTree
    /\ disk = Missing
    /\ clock = 1
    /\ nextToken = 1
    /\ passes = 0
    /\ PassAtRest

PickCall ==
    /\ pc = "pick_call"
    /\ ret' = pick_next(arg)
    /\ pc' = "pick_return"
    /\ UNCHANGED <<yaml_importable, suspended, backlog, overrides, files, disk, state, dry, verif, selected_info,
                   executor_output, blocking, clock, nextToken, passes, batch_complete, arg>>

SpecPick == InitPick /\ [][PickCall]_vars

\* the positions of the stories that are ready with every dependency id carried by
\* a story of the list whose status is done
Qualifying(l) ==
    {i \in 1..Len(l) :
        /\ l[i].status = "ready"
        /\ \A d \in 1..Len(l[i].dependencies) :
              \E j \in 1..Len(l) : l[j].id = l[i].dependencies[d] /\ l[j].status = "done"}

\* C6: pick_next returns the first story of the list that is ready with all its
\* dependencies done in the list (an absent dependency id is unsatisfied), and
\* None when the list is empty or holds no such story.
C6_PickNextFirstCandidate ==
    pc = "pick_return" =>
        IF Qualifying(arg) = {} THEN ret = Null
        ELSE ret = arg[CHOOSE i \in Qualifying(arg) : \A j \in Qualifying(arg) : i <= j]

\* pick_next skipped a first story that depends on an id absent from the list
C6_Witness ==
    /\ pc = "pick_return"
    /\ Len(arg) = 2
    /\ arg[1].status = "ready"
    /\ arg[1].dependencies = <<"Z">>
    /\ ret = arg[2]

(***************************************************************************)
(* state.py: load_state and rebuild_state                                  *)
(***************************************************************************)
_REQUIRED_KEYS ==
    { "version", "last_updated", "environment_fingerprint", "stories",
      "artifacts_manifest", "coverage_history", "protected_zone", "resume_token",
      "quarantine_tests", "container_fingerprint", "metrics", "role_progress" }

_OMIT_DIRS ==
    { <<".", "orchestrator">>, <<".", "git">>, <<".", "svn">>, <<".", "hg">>,
      <<".", "venv">>, <<"__pycache__">>, <<".", "pytest_cache">>,
      <<".", "mypy_cache">>, <<".", "ruff_cache">> }

_OMIT_FILE_PATTERNS ==
    { <<".", "pyc">>, <<".", "pyo">>, <<".", "pyd">>, <<".", "db">>, <<".", "sqlite">>,
      <<".", "sqlite3">>, <<".", "coverage">> }

endswith(p, suffix) ==
    Len(suffix) <= Len(p) /\ SubSeq(p, Len(p) - Len(suffix) + 1, Len(p)) = suffix

\* p.split("/")
RECURSIVE split(_)
split(p) ==
    LET S == {i \in 1..Len(p) : p[i] = "/"}
    IN  IF S = {} THEN <<p>>
        ELSE LET i == CHOOSE i \in S : \A j \in S : i <= j
             IN  <<SubSeq(p, 1, i - 1)>> \o split(SubSeq(p, i + 1, Len(p)))

_is_omitted(path) ==
    \/ \E part \in Range(split(ReplaceBackslash(path))) : part \in _OMIT_DIRS
    \/ \E suffix \in _OMIT_FILE_PATTERNS : endswith(basename(path), suffix)

\* the paths of the workspaces below, in the order of their strings
\* ("." < "/" < "_" < lower-case letters)
SortedPaths ==
    << <<".", "coverage">>, <<".", "git", "/", "config">>,
       <<"app", "/", "__init__.py">>,
       <<"app", "/", "__pycache__", "/", "main", ".", "pyc">>,
       <<"app", "/", "main.py">>, <<"app", "/", "x", "/", "mod.py">>,
       <<"lib", "/", ".", "git">>,
       <<"lib", "/", "__init__.py">>, <<"lib", "/", "util.py">> >>

\* the content of a file _sha256_file raises PermissionError on
Locked == "locked"

\* state.py compute_artifacts_manifest: walk, drop the omitted and the files whose
\* checksum raises, sort by path
state_compute_artifacts_manifest(fs) ==
    LET kept == SelectSeq(SortedPaths, LAMBDA p :
                    p \in DOMAIN fs /\ ~_is_omitted(p) /\ fs[p] # Locked)
    IN  [i \in 1..Len(kept) |->
            [path |-> ReplaceBackslash(kept[i]), checksum |-> fs[kept[i]]]]

_new_state_skeleton(fs, now, tok) ==
    [ version |-> 1,
      last_updated |-> now,
      environment_fingerprint |-> "env_fingerprint",
      stories |-> <<>>,
      artifacts_manifest |-> state_compute_artifacts_manifest(fs),
      coverage_history |-> <<>>,
      protected_zone |-> [paths |-> <<>>],
      resume_token |-> tok,
      quarantine_tests |-> <<>>,
      container_fingerprint |-> None,
      metrics |-> [throughput |-> 0, error_rate |-> 0],
      role_progress |-> <<>> ]

_valid_state(obj) == _REQUIRED_KEYS \subseteq DOMAIN obj

_write_json_no_bom(data) == Text(json_dumps(data))

\* the document returned, the state file after the call, whether it was rebuilt
rebuild_state(fs, now, tok) ==
    LET st == _new_state_skeleton(fs, now, tok)
    IN  [data |-> st, disk |-> _write_json_no_bom(st), rebuilt |-> TRUE]

\* load_state that rebuilds whatever the state file holds
load_state_rebuilding(d, fs, now, tok) == rebuild_state(fs, now, tok)

\* an exception that leaves the function
Raised(exc) == [raised |-> exc]

\* file content that is not UTF-8: f.read() of line 158 raises UnicodeDecodeError,
\* a ValueError that is neither a json.JSONDecodeError nor an OSError
Undecodable == [valid |-> FALSE, utf8 |-> FALSE]

load_state(d, fs, now, tok) ==
    IF d = Missing THEN rebuild_state(fs, now, tok)
    ELSE IF d.text = Undecodable
         THEN [data |-> Raised("UnicodeDecodeError"), disk |-> d, rebuilt |-> FALSE]
    ELSE IF ~d.text.valid THEN rebuild_state(fs, now, tok)
    ELSE IF ~_valid_state(json_loads(d.text)) THEN rebuild_state(fs, now, tok)
    ELSE [data |-> json_loads(d.text), disk |-> d, rebuilt |-> FALSE]

MaxCalls == 3

StateTree ==
    LET F == { <<".", "coverage">>, <<".", "git", "/", "config">>,
               <<"app", "/", "__init__.py">>,
               <<"app", "/", "__pycache__", "/", "main", ".", "pyc">>,
               <<"app", "/", "main.py">>, <<"lib", "/", "util.py">> }
    IN  [p \in F |-> "original"]

\* a valid document written before the workspace got its files, with a key of
\* its own
ValidDoc == Put([_new_state_skeleton(StateTree, 1, 0) EXCEPT !.artifacts_manifest = <<>>],
                "foo", "bar")

\* a document without the key role_progress
PartialDoc ==
    [k \in _REQUIRED_KEYS \ {"role_progress"} |-> _new_state_skeleton(StateTree, 1, 0)[k]]

\* a document of an earlier run (a story record, coverage history, metrics, a key
\* of its own) that has lost the key role_progress
PartialDocWithHistory ==
    [k \in (_REQUIRED_KEYS \ {"role_progress"}) \cup {"foo"} |->
        IF k = "foo" THEN "bar"
        ELSE [_new_state_skeleton(StateTree, 1, 0) EXCEPT
                 !.stories = <<[id |-> "A", status |-> "done", attempts |-> 1]>>,
                 !.coverage_history = <<[timestamp |-> 1, percent |-> 95]>>,
                 !.metrics = [throughput |-> 1, error_rate |-> 0]][k]]

InitState ==
    /\ pc = "state_api"
    /\ arg = "start"
    /\ ret = Null
    /\ files = StateTree
    /\ disk \in {Missing, Text(Garbage), Text(json_dumps(PartialDoc)),
                 Text(json_dumps(PartialDocWithHistory)), Text(json_dumps(ValidDoc))}
    /\ clock = 1
    /\ nextToken = 1
    /\ passes = 0
    /\ PassAtRest

\* a call of load_state(root); `passes` counts the calls, `arg` names the last
\* operation on the workspace
LoadState ==
    /\ pc = "state_api"
    /\ passes < MaxCalls
    /\ clock' = clock + 1
    /\ LET r == load_state(disk, files, clock', nextToken)
       IN  /\ ret' = r.data
           /\ disk' = r.disk
           /\ nextToken' = IF r.rebuilt THEN nextToken + 1 ELSE nextToken
    /\ arg' = "load_state"
    /\ passes' = passes + 1
    /\ UNCHANGED <<pc, yaml_importable, suspended, backlog, overrides, files, state, dry, verif, selected_info,
                   executor_output, blocking, batch_complete>>

RebuildState ==
    /\ pc = "state_api"
    /\ passes < MaxCalls
    /\ clock' = clock + 1
    /\ LET r == rebuild_state(files, clock', nextToken)
       IN  /\ ret' = r.data
           /\ disk' = r.disk
    /\ nextToken' = nextToken + 1
    /\ arg' = "rebuild_state"
    /\ passes' = passes + 1
    /\ UNCHANGED <<pc, yaml_importable, suspended, backlog, overrides, files, state, dry, verif, selected_info,
                   executor_output, blocking, batch_complete>>

\* the environment between two calls: the state file is corrupted or deleted,
\* a workspace file is written
CorruptStateFile ==
    /\ pc = "state_api"
    /\ disk' \in {Text(Garbage), Text(Undecodable)}
    /\ disk' # disk
    /\ arg' = "env"
    /\ UNCHANGED <<pc, yaml_importable, suspended, backlog, overrides, files, state, dry, verif, selected_info,
                   executor_output, blocking, clock, nextToken, passes, batch_complete, ret>>

DeleteStateFile ==
    /\ pc = "state_api"
    /\ disk # Missing
    /\ disk' = Missing
    /\ arg' = "env"
    /\ UNCHANGED <<pc, yaml_importable, suspended, backlog, overrides, files, state, dry, verif, selected_info,
                   executor_output, blocking, clock, nextToken, passes, batch_complete, ret>>

WriteWorkspaceFile ==
    /\ pc = "state_api"
    /\ \E p \in {<<"lib", "/", "util.py">>, <<"lib", "/", "__init__.py">>} :
          /\ files' = write(files, p, "edited")
          /\ files' # files
    /\ arg' = "env"
    /\ UNCHANGED <<pc, yaml_importable, suspended, backlog, overrides, disk, state, dry, verif, selected_info,
                   executor_output, blocking, clock, nextToken, passes, batch_complete, ret>>

NextState ==
    LoadState \/ RebuildState \/ CorruptStateFile \/ DeleteStateFile \/ WriteWorkspaceFile

SpecState == InitState /\ [][NextState]_vars

\* C10: a call of load_state on a workspace without a state file returns a
\* document with every required key and persists it; a call that immediately
\* follows a call of load_state returns the same document and leaves the state
\* file as it is; a valid document on disk is returned as it is, the file untouched.
C10_LoadStateIdempotent ==
    [][ (arg' = "load_state" /\ passes' = passes + 1)
        => /\ disk = Missing =>
                 /\ _REQUIRED_KEYS \subseteq DOMAIN ret'
                 /\ Loadable(disk')
                 /\ json_loads(disk'.text) = ret'
           /\ arg = "load_state" => (ret' = ret /\ disk' = disk)
           /\ (Loadable(disk) /\ _valid_state(json_loads(disk.text)))
                 => (ret' = json_loads(disk.text) /\ disk' = disk)
      ]_vars

\* the second of two calls has returned, at time 3, the document the first one
\* built at time 2, and the state file holds that document
C10_Witness ==
    /\ pc = "state_api"
    /\ arg = "load_state"
    /\ passes = 2
    /\ clock = 3
    /\ ret.last_updated = 2
    /\ ret.resume_token = 1
    /\ disk = Text(json_dumps(ret))

\* the state file holds a document load_state cannot use: text that does not
\* parse, or an object without some required key
Unusable(d) ==
    /\ d # Missing
    /\ Loadable(d) => ~_valid_state(json_loads(d.text))

\* C11: load_state on an unparseable document, or on a parseable one missing a
\* required key, raises nothing and returns and persists the fresh skeleton of the
\* workspace (empty stories and coverage_history, zeroed metrics, a new
\* resume_token), in which nothing of the old document is left.
C11_UnusableDocumentRebuilt ==
    [][ (arg' = "load_state" /\ passes' = passes + 1 /\ Unusable(disk))
        => /\ ret' = _new_state_skeleton(files, clock', nextToken)
           /\ disk' = Text(json_dumps(ret'))
           /\ ret'.stories = <<>>
           /\ ret'.coverage_history = <<>>
           /\ ret'.metrics = [throughput |-> 0, error_rate |-> 0]
           /\ Loadable(disk) =>
                 Get(json_loads(disk.text), "resume_token", -1) # ret'.resume_token
      ]_vars

(***************************************************************************)
(* orchestrator.py: load_or_rebuild_state on the state files an earlier    *)
(* run or an operator may have left                                        *)
(***************************************************************************)
\* a document of an earlier run that has lost the keys metrics and resume_token
StateWithoutMetrics ==
    [k \in DOMAIN default_state(1, 0) \ {"metrics", "resume_token"} |->
        [default_state(1, 0) EXCEPT
            !.stories = <<[id |-> "A", status |-> "done", attempts |-> 1,
                           started_at |-> 1, completed_at |-> 1,
                           assigned_role |-> None]>>][k]]

InitLoad ==
    /\ pc = "idle"
    /\ backlog \in Backlogs
    /\ overrides = NoOverrides
    /\ files = TreeOf(backlog)
    /\ disk \in {Missing, Text(Garbage), Text(Undecodable),
                 Text(json_dumps(StateWithoutMetrics)),
                 Text(json_dumps([foo |-> "bar"]))}
    /\ state = Null
    /\ dry = FALSE
    /\ verif = Null
    /\ selected_info = Null
    /\ executor_output = Null
    /\ blocking = <<>>
    /\ clock = 1
    /\ nextToken = 1
    /\ passes = 0
    /\ batch_complete = FALSE
    /\ yaml_importable = TRUE
    /\ suspended = Null
    /\ PureIdle

SpecLoad == InitLoad /\ [][Load]_vars

\* C12: after load_or_rebuild_state the state has every required key, and a
\* parseable document that misses a required key has been replaced by the fresh
\* skeleton of the workspace (resume_token apart, which is drawn anew).
C12_LoadedStateHasRequiredKeys ==
    pc = "loaded" =>
        /\ _REQUIRED_KEYS \subseteq DOMAIN state
        /\ (Loadable(disk) /\ ~(_REQUIRED_KEYS \subseteq DOMAIN json_loads(disk.text)))
              => LET fresh == load_or_rebuild_state(Missing, backlog, files, clock, 0)
                 IN  /\ DOMAIN state = DOMAIN fresh
                     /\ \A k \in DOMAIN fresh \ {"resume_token"} : state[k] = fresh[k]

(***************************************************************************)
(* Claims about the artifacts manifest                                     *)
(***************************************************************************)
\* the paths of the orchestrator's workspaces in the order of their strings
PathsByName ==
    << <<"__init__.py">>, <<"app", "/", "__init__.py">>, <<"app", "/", "main.py">>,
       <<"app", "/", "x", "/", "__init__.py">>, <<"app", "/", "x", "/", "mod.py">>,
       <<"backlog", "/", "a.json">>, <<"backlog", "/", "b.json">>,
       <<"backlog", "/", "c.json">>, <<"lib", "/", "__init__.py">>,
       <<"lib", "/", "util.py">> >>

PathRank(p) == CHOOSE i \in 1..Len(PathsByName) : PathsByName[i] = p

PersistedManifest == Get(json_loads(disk.text), "artifacts_manifest", <<>>)

\* C13: the persisted artifacts_manifest has at most one entry per path and is
\* sorted by path.
C13_ManifestUniqueAndSorted ==
    Loadable(disk) =>
        \A i, j \in 1..Len(PersistedManifest) :
            i < j => PathRank(PersistedManifest[i].path) < PathRank(PersistedManifest[j].path)

(***************************************************************************)
(* state.py: compute_artifacts_manifest called twice on a tree             *)
(***************************************************************************)
ManifestPaths ==
    { <<"app", "/", "main.py">>, <<"lib", "/", "util.py">>,
      <<".", "git", "/", "config">>,
      <<"app", "/", "__pycache__", "/", "main", ".", "pyc">>,
      <<".", "coverage">>, <<"lib", "/", ".", "git">> }

\* the trees over ManifestPaths: each file absent, readable or locked
ManifestTrees ==
    UNION {[F -> {"original", Locked}] : F \in SUBSET ManifestPaths}

InitManifest ==
    /\ pc = "manifest_call"
    /\ files \in ManifestTrees
    /\ arg = Null
    /\ ret = Null
    /\ disk = Missing
    /\ clock = 1
    /\ nextToken = 1
    /\ passes = 0
    /\ PassAtRest

ManifestCall ==
    /\ pc = "manifest_call"
    /\ ret' = [manifest |-> state_compute_artifacts_manifest(files)]
    /\ pc' = "manifest_return"
    /\ UNCHANGED <<yaml_importable, suspended, backlog, overrides, files, disk, state, dry, verif, selected_info,
                   executor_output, blocking, clock, nextToken, passes, batch_complete, arg>>

\* the second call, on the unchanged tree; arg keeps the first output
ManifestCallAgain ==
    /\ pc = "manifest_return"
    /\ arg' = ret
    /\ ret' = [manifest |-> state_compute_artifacts_manifest(files)]
    /\ pc' = "manifest_again"
    /\ UNCHANGED <<yaml_importable, suspended, backlog, overrides, files, disk, state, dry, verif, selected_info,
                   executor_output, blocking, clock, nextToken, passes, batch_complete>>

SpecManifest == InitManifest /\ [][ManifestCall \/ ManifestCallAgain]_vars

\* some directory on the way to the file has an omitted name
UnderOmittedDir(p) ==
    dirname(p) # <<>> /\ \E part \in Range(split(dirname(p))) : part \in _OMIT_DIRS

HasOmittedSuffix(p) == \E suffix \in _OMIT_FILE_PATTERNS : endswith(basename(p), suffix)

SortedRank(p) == CHOOSE i \in 1..Len(SortedPaths) : SortedPaths[i] = p

\* C14: compute_artifacts_manifest returns exactly the readable files that are
\* neither under an omitted directory nor named with an omitted suffix, one entry
\* per file with its checksum, sorted by path; a second call on the unchanged tree
\* returns the same list.
C14_ManifestExact ==
    pc \in {"manifest_return", "manifest_again"} =>
        LET man == ret.manifest
        IN  /\ {man[i].path : i \in 1..Len(man)} =
                  {p \in DOMAIN files : /\ files[p] # Locked
                                        /\ ~UnderOmittedDir(p)
                                        /\ ~HasOmittedSuffix(p)}
            /\ \A i \in 1..Len(man) : man[i].checksum = files[man[i].path]
            /\ \A i, j \in 1..Len(man) :
                  i < j => SortedRank(man[i].path) < SortedRank(man[j].path)
            /\ pc = "manifest_again" => ret = arg

(***************************************************************************)
(* workflow.py: discover_backlog.  A JSON number is Num(n) and a string    *)
(* in a number's place is Str(s), so that the comparison of the sort knows *)
(* the types it compares.                                                  *)
(***************************************************************************)
Num(n) == [num |-> n]

Str(t) == [str |-> t]

VALID_STATUSES == {"ready", "in_progress", "done", "blocked"}

\* file contents: JSON text of an object or of a list, text that starts with a
\* brace and does not parse, flat "key: value" lines
JsonObject(obj) == [fmt |-> "json", obj |-> obj]

JsonList(elems) == [fmt |-> "json", list |-> elems]

BadJson == [fmt |-> "bad_json"]

FlatYaml(lines) == [fmt |-> "yaml", lines |-> lines]

QUOTE == "\""

\* lines 36-44: the value of a raw scalar
yaml_scalar(raw) ==
    IF raw.kind = "json" THEN raw.value
    ELSE IF raw.kind = "quoted" THEN raw.text[2]
    ELSE raw.text[1]

\* _load_any: the parsed value, tagged dict or list, or the exception
_load_any(content) ==
    IF content.fmt = "bad_json" THEN Raised("JSONDecodeError")
    ELSE IF content.fmt = "json"
         THEN IF "obj" \in DOMAIN content THEN [dict |-> content.obj]
              ELSE [list |-> content.list]
    ELSE LET ls == content.lines
             last(k) == CHOOSE i \in 1..Len(ls) :
                            ls[i][1] = k /\ \A j \in 1..Len(ls) : ls[j][1] = k => j <= i
         IN  [dict |-> [k \in {ls[i][1] : i \in 1..Len(ls)} |-> yaml_scalar(ls[last(k)][2])]]

\* `not story or "id" not in story`
SkippedStory(v) ==
    IF "dict" \in DOMAIN v THEN "id" \notin DOMAIN v.dict
    ELSE v.list = <<>> \/ "id" \notin Range(v.list)

\* lines 65-68: status, dependencies and priority of a story
NormalizeDiscovered(story) ==
    LET s1 == IF Get(story, "status", None) \notin VALID_STATUSES
              THEN Put(story, "status", "ready") ELSE story
        s2 == IF "dependencies" \in DOMAIN s1 THEN s1 ELSE Put(s1, "dependencies", <<>>)
    IN  IF "priority" \in DOMAIN s2 THEN s2 ELSE Put(s2, "priority", Num(999))

TitleOrder == <<"", "Alpha", "Bravo", "Charlie", "NoId">>

TitleIndex(t) == CHOOSE i \in 1..Len(TitleOrder) : TitleOrder[i] = t

SameType(a, b) == ("num" \in DOMAIN a) = ("num" \in DOMAIN b)

\* (priority, title) of a < (priority, title) of b, priorities of one type
KeyLess(a, b) ==
    LET pa == Get(a, "priority", Num(999))
        pb == Get(b, "priority", Num(999))
        ta == TitleIndex(Get(a, "title", ""))
        tb == TitleIndex(Get(b, "title", ""))
    IN  IF pa = pb THEN ta < tb
        ELSE "num" \in DOMAIN pa /\ pa.num < pb.num

\* list.sort(key=...): stable
RECURSIVE sort_by_key(_)
sort_by_key(seq) ==
    IF seq = <<>> THEN <<>>
    ELSE LET m == CHOOSE i \in 1..Len(seq) :
                      /\ \A j \in 1..Len(seq) : ~KeyLess(seq[j], seq[i])
                      /\ \A j \in 1..(i - 1) : KeyLess(seq[i], seq[j])
         IN  <<seq[m]>> \o sort_by_key([k \in 1..(Len(seq) - 1) |->
                                            IF k < m THEN seq[k] ELSE seq[k + 1]])

BACKLOG_EXTENSIONS == {".json", ".yml", ".yaml"}

\* discover_backlog on the directory listing: the stories, or the exception
discover_backlog(bdir_isdir, listing) ==
    IF ~bdir_isdir THEN [stories |-> <<>>]
    ELSE LET named  == SelectSeq(listing, LAMBDA f : f.ext \in BACKLOG_EXTENSIONS)
             loaded == [i \in 1..Len(named) |-> _load_any(named[i].content)]
             kept   == SelectSeq(loaded, LAMBDA v :
                           "raised" \notin DOMAIN v /\ ~SkippedStory(v))
         IN  IF \E i \in 1..Len(kept) : "list" \in DOMAIN kept[i]
             THEN Raised("AttributeError")
             ELSE LET out == [i \in 1..Len(kept) |-> NormalizeDiscovered(kept[i].dict)]
                  IN  IF \E i, j \in 1..Len(out) : ~SameType(out[i].priority, out[j].priority)
                      THEN Raised("TypeError")
                      ELSE [stories |-> sort_by_key(out)]

BacklogFile(name, ext, content) == [name |-> name, ext |-> ext, content |-> content]

WithOptional(rec, key, vals) == {rec} \cup {Put(rec, key, v) : v \in vals}

\* a.json: story A with or without title, priority (a number or the string
\* "high") and status; or no story at all
AContents ==
    LET s1 == WithOptional([id |-> "A"], "title", {"Alpha"})
        s2 == UNION {WithOptional(r, "priority", {Num(1), Str("high")}) : r \in s1}
        s3 == UNION {WithOptional(r, "status", {"weird", "done"}) : r \in s2}
    IN  {JsonObject(r) : r \in s3}
            \cup {BadJson, JsonList(<<>>), JsonList(<<"id">>), JsonObject([title |-> "NoId"])}

BContents ==
    LET s1 == WithOptional([id |-> "B"], "title", {"Alpha", "Bravo"})
        s2 == UNION {WithOptional(r, "priority", {Num(1)}) : r \in s1}
    IN  {JsonObject(r) : r \in s2}

YamlLine(key, kind, text) == <<key, [kind |-> kind, text |-> text]>>

CContents ==
    { FlatYaml(<< YamlLine("id", "plain", <<"C">>),
                  YamlLine("title", "quoted", <<QUOTE, "Charlie", QUOTE>>),
                  YamlLine("status", "plain", <<"done">>),
                  YamlLine("status", "plain", <<"weird">>),
                  <<"priority", [kind |-> "json", value |-> Num(2)]>> >>),
      FlatYaml(<< YamlLine("id", "plain", <<"C">>),
                  YamlLine("priority", "plain", <<Str("high")>>) >>),
      FlatYaml(<< YamlLine("title", "plain", <<"NoId">>) >>) }

\* what the directory backlog/ may hold
BacklogDirs ==
    LET opt(name, ext, cs) == {{}} \cup {{BacklogFile(name, ext, c)} : c \in cs}
    IN  {a \cup b \cup c \cup n :
            a \in opt("a.json", ".json", AContents),
            b \in opt("b.json", ".json", BContents),
            c \in opt("c.yml", ".yml", CContents),
            n \in opt("notes.txt", ".txt", {JsonObject([id |-> "N"])})}

\* the orders os.listdir may yield the files in
Listings(S) ==
    {l \in [1..Cardinality(S) -> S] : \A i, j \in 1..Cardinality(S) : l[i] = l[j] => i = j}

InitDiscover ==
    /\ pc = "discover_call"
    /\ \/ \E S \in BacklogDirs : arg = [isdir |-> TRUE, files |-> S]
       \/ arg = [isdir |-> FALSE, files |-> {}]
    /\ ret = Null
    /\ files = BaseTree
    /\ disk = Missing
    /\ clock = 1
    /\ nextToken = 1
    /\ passes = 0
    /\ PassAtRest

DiscoverCall ==
    /\ pc = "discover_call"
    /\ \E listing \in Listings(arg.files) : ret' = discover_backlog(arg.isdir, listing)
    /\ pc' = "discover_return"
    /\ UNCHANGED <<yaml_importable, suspended, backlog, overrides, files, disk, state, dry, verif, selected_info,
                   executor_output, blocking, clock, nextToken, passes, batch_complete, arg>>

SpecDiscover == InitDiscover /\ [][DiscoverCall]_vars

ParsesToObjectWithId(f) ==
    /\ f.ext \in BACKLOG_EXTENSIONS
    /\ LET v == _load_any(f.content)
       IN  "dict" \in DOMAIN v /\ "id" \in DOMAIN v.dict

\* the story of file f as it must appear in the result r
DiscoveredFrom(f, r) ==
    LET d == _load_any(f.content).dict
    IN  /\ r.id = d.id
        /\ DOMAIN r = DOMAIN d \cup {"status", "dependencies", "priority"}
        /\ r.status = (IF "status" \in DOMAIN d /\ d.status \in VALID_STATUSES
                       THEN d.status ELSE "ready")
        /\ r.dependencies = (IF "dependencies" \in DOMAIN d THEN d.dependencies ELSE <<>>)
        /\ r.priority = (IF "priority" \in DOMAIN d THEN d.priority ELSE Num(999))
        /\ \A k \in DOMAIN d \ {"status"} : r[k] = d[k]

\* C15: discover_backlog returns one story per backlog file that parses to an
\* object with an id, its status replaced by ready when missing or invalid,
\* dependencies defaulting to the empty list and priority to 999; entries
\* without id are absent; the list is sorted by (priority, title) ascending.
C15_DiscoverNormalizesAndSorts ==
    pc = "discover_return" /\ arg.isdir =>
        /\ "stories" \in DOMAIN ret
        /\ LET s    == ret.stories
               good == {f \in arg.files : ParsesToObjectWithId(f)}
           IN  /\ Len(s) = Cardinality(good)
               /\ \A f \in good : \E i \in 1..Len(s) : DiscoveredFrom(f, s[i])
               /\ \A i, j \in 1..Len(s) : i < j => ~KeyLess(s[j], s[i])

\* C16: discover_backlog never aborts the scan: whatever the backlog files
\* hold (unparseable text, a JSON list, an entry without id, a priority that
\* is not a number) it raises no error and returns the remaining valid stories.
C16_DiscoverNeverRaises ==
    pc = "discover_return" =>
        /\ "raised" \notin DOMAIN ret
        /\ {ret.stories[i].id : i \in 1..Len(ret.stories)}
               = {_load_any(f.content).dict.id : f \in {g \in arg.files : ParsesToObjectWithId(g)}}

\* C17: discover_backlog is deterministic: every order in which the directory
\* listing may yield the same files gives the same ordered list.
C17_DiscoverOrderIndependent ==
    pc = "discover_return" =>
        \A l \in Listings(arg.files) : discover_backlog(arg.isdir, l) = ret

\* " & ".join(bits), the pieces kept as tokens
RECURSIVE join_amp(_)
join_amp(bits) ==
    IF Len(bits) <= 1 THEN bits
    ELSE <<bits[1], " & ">> \o join_amp(Tail(bits))

FixGateTitle(import_ok, tests_ok) ==
    <<"Fix Gate: ">> \o
        join_amp((IF ~import_ok THEN <<"import errors">> ELSE <<>>)
                     \o (IF ~tests_ok THEN <<"failing tests/coverage">> ELSE <<>>))

VirtualFixGate(import_ok, tests_ok) ==
    [ id |-> "fix_gate_virtual",
      title |-> FixGateTitle(import_ok, tests_ok),
      priority |-> 0,
      status |-> "ready",
      dependencies |-> <<>>,
      acceptance_criteria |-> << "Imports succeed from WORKSPACE_ROOT",
                                 "Pytest suite passes with required coverage" >>,
      allowed_paths |-> <<>>,
      risk_level |-> "low",
      auto_generated |-> TRUE,
      assigned_role |-> "QA Engineer/Tester" ]

\* variant: no gate as soon as one of the two signals is fine
synthesize_fix_gate_either(import_ok, tests_ok) ==
    IF import_ok \/ tests_ok THEN Null ELSE VirtualFixGate(import_ok, tests_ok)

synthesize_fix_gate(import_ok, tests_ok) ==
    IF import_ok /\ tests_ok THEN Null ELSE VirtualFixGate(import_ok, tests_ok)

\* how many calls of synthesize_fix_gate one run of the driver makes
MaxSynthCalls == 4

\* a driver that calls synthesize_fix_gate repeatedly, as the unit test does;
\* arg and ret hold the arguments and the results of the calls made so far
InitSynth ==
    /\ pc = "synth"
    /\ arg = <<>>
    /\ ret = <<>>
    /\ files = BaseTree
    /\ disk = Missing
    /\ clock = 1
    /\ nextToken = 1
    /\ passes = 0
    /\ PassAtRest

SynthCall ==
    /\ pc = "synth"
    /\ Len(arg) < MaxSynthCalls
    /\ \E import_ok, tests_ok \in BOOLEAN :
          /\ arg' = Append(arg, [import_ok |-> import_ok, tests_ok |-> tests_ok])
          /\ ret' = Append(ret, synthesize_fix_gate(import_ok, tests_ok))
    /\ UNCHANGED <<pc, yaml_importable, suspended, backlog, overrides, files, disk, state, dry, verif, selected_info,
                   executor_output, blocking, clock, nextToken, passes, batch_complete>>

SpecSynth == InitSynth /\ [][SynthCall]_vars

FirstIndex(seq, x) == CHOOSE i \in 1..Len(seq) : seq[i] = x /\ \A j \in 1..(i - 1) : seq[j] # x

\* C18: synthesize_fix_gate returns None exactly when both flags are true;
\* otherwise a story with the fixed id, priority 0, status ready, no
\* dependencies, no allowed paths, and a title that names 'import errors' iff
\* import_ok is false and 'failing tests/coverage' iff tests_ok is false, the
\* import signal first.
C18_FixGateSynthesis ==
    pc = "synth" =>
        \A i \in 1..Len(ret) :
            LET a == arg[i]
                r == ret[i]
            IN  /\ (r = Null) <=> (a.import_ok /\ a.tests_ok)
                /\ r # Null =>
                      /\ r.id = "fix_gate_virtual"
                      /\ r.priority = 0
                      /\ r.status = "ready"
                      /\ r.dependencies = <<>>
                      /\ r.allowed_paths = <<>>
                      /\ ("import errors" \in Range(r.title)) <=> ~a.import_ok
                      /\ ("failing tests/coverage" \in Range(r.title)) <=> ~a.tests_ok
                      /\ (~a.import_ok /\ ~a.tests_ok) =>
                             FirstIndex(r.title, "import errors")
                                 < FirstIndex(r.title, "failing tests/coverage")

\* every combination of the two flags has been tried, None and the
\* two-signal title among the results
C18_Witness ==
    /\ pc = "synth"
    /\ Len(ret) = 4
    /\ {arg[i] : i \in 1..4} = [import_ok : BOOLEAN, tests_ok : BOOLEAN]
    /\ \E i \in 1..4 : ret[i] = Null
    /\ \E i \in 1..4 : ret[i] # Null /\ Len(ret[i].title) = 4

PersistedToken(d) == json_loads(d.text).resume_token

\* C19: after every pass that executes a story and persists its outcome, the
\* persisted resume_token differs from its value before the pass.  The state
\* document exists before every pass but the first; between the start of a
\* pass and its executor step nothing changes the token.
C19_ResumeTokenChanges ==
    [][ (pc = "selected" /\ pc' = "executed" /\ passes >= 2)
            => PersistedToken(disk') # PersistedToken(disk) ]_vars

\* the part of the persisted document the dry-run promise is about
PersistedProgress(d) ==
    IF Loadable(d)
    THEN LET st == json_loads(d.text)
         IN  [ stories |-> st.stories, metrics |-> st.metrics,
               resume_token |-> st.resume_token ]
    ELSE Null

\* C20: a pass run in dry_run mode creates or changes no workspace file and
\* leaves the persisted state document (story statuses, attempts, metrics,
\* resume_token) as it was before the pass.
C20_DryRunMutatesNothing ==
    [][ dry' => /\ files' = files
                /\ Loadable(disk') = Loadable(disk)
                /\ PersistedProgress(disk') = PersistedProgress(disk) ]_vars

\* the change-set file list of a real (not dry) run of the executor on the
\* story, overrides, protected zone and workspace of the current state
RealRunFiles ==
    executor_for_story(selected_info.chosen, FALSE, overrides,
                       state.protected_zone.paths, files, 0, 95, nextToken).out.change_set.files

\* C21: under dry-run the executor creates no package-marker file, yet the
\* file list of its change-set is exactly the list of files a real run on the
\* same workspace would create.
C21_DryRunReportsPlannedFiles ==
    [][ (pc = "selected" /\ pc' = "executed" /\ dry)
            => /\ files' = files
               /\ executor_output'.change_set.files = RealRunFiles ]_vars

\* the executor ran the story past the protected-path gate
PassedGate(out) == out # Null /\ out.classification # BLOCKED_NEEDS_OVERRIDE

P_c_yml == <<"backlog", "/", "c.yml">>

YamlStory == [Story("C", 2, "ready", <<>>, <<>>) EXCEPT !._source_file = P_c_yml]

\* parse_story_file gives None for the .yml file when yaml cannot be imported
EnvBacklogs(importable) ==
    {<<a, b>> \o (IF importable THEN <<YamlStory>> ELSE <<>>) :
        a \in {Story("A", prio, "ready", <<>>, paths) :
                  prio \in {0, 1}, paths \in {<<P_init_x>>, <<P_main>>}},
        b \in {Story("B", 1, st, deps, <<>>) :
                  st \in {"ready", "done"}, deps \in {<<>>, <<"A">>}}}

InitEnv ==
    /\ pc = "idle"
    /\ yaml_importable \in BOOLEAN
    /\ backlog \in EnvBacklogs(yaml_importable)
    /\ overrides = NoOverrides
    /\ files = write(TreeOf(backlog), P_c_yml, "story_file")
    /\ disk = Missing
    /\ state = Null
    /\ dry = FALSE
    /\ verif = Null
    /\ selected_info = Null
    /\ executor_output = Null
    /\ blocking = <<>>
    /\ clock = 1
    /\ nextToken = 1
    /\ passes = 0
    /\ batch_complete = FALSE
    /\ suspended = Null
    /\ PureIdle

SpecEnv == InitEnv /\ [][Next]_vars

\* C23: in every orchestration pass the list of blocking issues reported to
\* the operator has at most one entry.
C23_AtMostOneBlockingIssue == Len(blocking) <= 1

EnvironmentBlocked ==
    blocking # <<>> /\ blocking[1].code = ENVIRONMENT_MISMATCH

\* C24: when a pass raises environment_mismatch before execution (YAML backlog
\* files present, parser missing) the pass stops: no story is selected, marked
\* in_progress or executed in that pass.
C24_EnvironmentMismatchStopsPass ==
    [][ (EnvironmentBlocked /\ pc \in {"loaded", "selected"})
            => /\ selected_info' = Null
               /\ executor_output' = Null
               /\ PersistedStories(disk') = PersistedStories(disk) ]_vars

(***************************************************************************)
(* runloop.py: _check_protected_conflicts, preflight_checks                *)
(***************************************************************************)
\* the spellings of the paths a/b and c, in the order sorted() puts the strings
\* ('.' < '/' < '\' < 'a')
SortedSpellings ==
    << <<".", "/", "a", "/", "b">>, <<".", "/", "c">>, <<".", BSL, "a", BSL, "b">>,
       <<"a", "/", "b">>, <<"a", BSL, "b">>, <<"c">> >>

_check_protected_conflicts(allowed_paths, protected_paths) ==
    LET allowed   == Range(_normalize_paths(allowed_paths))
        protected == Range(_normalize_paths(protected_paths))
    IN  SelectSeq(SortedSpellings, LAMBDA p : p \in allowed \cap protected)

\* variant: a failing import outranks a conflict
preflight_classification_import_first(conflicts, import_ok) ==
    IF ~import_ok THEN ENVIRONMENT_MISMATCH
    ELSE IF conflicts # <<>> THEN BLOCKED_NEEDS_OVERRIDE ELSE None

\* lines 120-124
preflight_classification(conflicts, import_ok) ==
    IF conflicts # <<>> THEN BLOCKED_NEEDS_OVERRIDE
    ELSE IF ~import_ok THEN ENVIRONMENT_MISMATCH ELSE None

\* preflight_checks, given what _can_import_app(root) answers
preflight_checks(import_ok, allowed_paths, protected_paths) ==
    LET conflicts == _check_protected_conflicts(allowed_paths, protected_paths)
        classification == preflight_classification(conflicts, import_ok)
    IN  [ ok |-> classification = None,
          import_ok |-> import_ok,
          conflicts |-> conflicts,
          classification |-> classification,
          issues |-> (IF ~import_ok THEN <<"Import check failed">> ELSE <<>>)
                        \o (IF conflicts # <<>>
                            THEN <<"Allowed paths intersect Protected Zone">> ELSE <<>>) ]

\* longest list of allowed or protected paths handed to preflight_checks
MaxConflictLen == 2

ProtectedSpellings == {<<"a", BSL, "b">>, <<".", "/", "c">>, <<"c">>}

InitPreflight ==
    /\ pc = "preflight_call"
    /\ \E import_ok \in BOOLEAN,
          allowed \in SeqsUpTo(Range(SortedSpellings), MaxConflictLen),
          protected \in SeqsUpTo(ProtectedSpellings, MaxConflictLen) :
          arg = [import_ok |-> import_ok, allowed |-> allowed, protected |-> protected]
    /\ ret = Null
    /\ files = BaseTree
    /\ disk = Missing
    /\ clock = 1
    /\ nextToken = 1
    /\ passes = 0
    /\ PassAtRest

PreflightCall ==
    /\ pc = "preflight_call"
    /\ ret' = preflight_checks(arg.import_ok, arg.allowed, arg.protected)
    /\ pc' = "preflight_return"
    /\ UNCHANGED <<yaml_importable, suspended, backlog, overrides, files, disk, state, dry, verif, selected_info,
                   executor_output, blocking, clock, nextToken, passes, batch_complete, arg>>

SpecPreflight == InitPreflight /\ [][PreflightCall]_vars

\* which path a spelling names
PathName(p) ==
    IF p \in { <<".", "/", "a", "/", "b">>, <<"a", "/", "b">>, <<"a", BSL, "b">>,
               <<".", BSL, "a", BSL, "b">> }
    THEN "a/b" ELSE "c"

NamesOf(paths) == {PathName(paths[i]) : i \in 1..Len(paths)}

Conflicting == NamesOf(arg.allowed) \cap NamesOf(arg.protected)

\* C25: preflight_checks returns blocked_needs_override whenever allowed and
\* protected paths conflict (also when the import fails as well),
\* environment_mismatch when there is no conflict and the app import fails,
\* and null otherwise; ok is true exactly when the classification is null.
C25_PreflightClassification ==
    pc = "preflight_return" =>
        /\ ret.classification =
               (IF Conflicting # {} THEN BLOCKED_NEEDS_OVERRIDE
                ELSE IF ~arg.import_ok THEN ENVIRONMENT_MISMATCH ELSE None)
        /\ ret.ok <=> ret.classification = None

\* a conflict together with a failing import
C25_Witness ==
    /\ pc = "preflight_return"
    /\ Conflicting # {}
    /\ ~arg.import_ok
    /\ ret.classification = BLOCKED_NEEDS_OVERRIDE
    /\ ~ret.ok

\* C27: _check_protected_conflicts returns the sorted, duplicate-free
\* intersection of the normalised path sets: the result depends only on which
\* paths the two lists name, not on their order, repetitions or separator
\* style ('./a/b', 'a/b', 'a\b').
C27_ConflictsAreSortedIntersection ==
    pc = "preflight_return" =>
        ret.conflicts = SelectSeq(<< <<"a", "/", "b">>, <<"c">> >>,
                                  LAMBDA q : PathName(q) \in Conflicting)

\* both paths conflict, a/b through two different spellings given in the
\* lists in an order other than the sorted one
C27_Witness ==
    /\ pc = "preflight_return"
    /\ arg.allowed = << <<"c">>, <<".", "/", "a", "/", "b">> >>
    /\ arg.protected = << <<".", "/", "c">>, <<"a", BSL, "b">> >>
    /\ Len(ret.conflicts) = 2

(***************************************************************************)
(* runloop.py: plan_next_item, thin_run_loop                               *)
(***************************************************************************)
\* plan_next_item on the directory listing: the plan, None, or the exception
\* discover_backlog raised
plan_next_item(bdir_isdir, listing) ==
    LET found == discover_backlog(bdir_isdir, listing)
    IN  IF "raised" \in DOMAIN found THEN found
        ELSE LET nxt == pick_next(found.stories)
             IN  IF nxt = Null THEN Null
                 ELSE [ story_id |-> nxt.id,
                        title |-> Get(nxt, "title", ""),
                        priority |-> Get(nxt, "priority", Num(999)),
                        allowed_paths |-> Get(nxt, "allowed_paths", <<>>),
                        risk_level |-> Get(nxt, "risk_level", "low"),
                        assigned_role |-> Get(nxt, "assigned_role", ""),
                        status |-> "ready" ]

thin_run_loop(bdir_isdir, listing, import_ok, protected_paths) ==
    LET plan == plan_next_item(bdir_isdir, listing)
    IN  IF "raised" \in DOMAIN plan THEN plan
        ELSE IF plan = Null
        THEN [selected |-> Null, preflight |-> Null, status |-> "no_ready_story"]
        ELSE LET pre == preflight_checks(import_ok, plan.allowed_paths, protected_paths)
             IN  [ selected |-> plan, preflight |-> pre,
                   status |-> IF pre.ok THEN "ready_to_execute"
                              ELSE IF pre.classification # None THEN pre.classification
                              ELSE "blocked" ]

\* the backlog directories thin_run_loop is run on
RunLoopDirs ==
    LET As == UNION {WithOptional([id |-> "A", title |-> "Alpha", priority |-> p,
                                   allowed_paths |-> <<ap>>], "status", {"ready", "done"}) :
                        p \in {Num(1), Num(3), Str("high")},
                        ap \in {<<"a", BSL, "b">>, <<"c">>}}
        Bs == {[id |-> "B", title |-> "Bravo", priority |-> Num(2), dependencies |-> deps,
                allowed_paths |-> << <<".", "/", "c">> >>] : deps \in {<<>>, <<"A">>}}
    IN  {a \cup b :
            a \in {{}} \cup {{BacklogFile("a.json", ".json", JsonObject(r))} : r \in As},
            b \in {{}} \cup {{BacklogFile("b.json", ".json", JsonObject(r))} : r \in Bs}}

InitRunLoop ==
    /\ pc = "runloop_call"
    /\ \E S \in RunLoopDirs, import_ok \in BOOLEAN,
          protected \in {<<>>, << <<"c">> >>} :
          arg = [isdir |-> TRUE, files |-> S, import_ok |-> import_ok, protected |-> protected]
    /\ ret = Null
    /\ files = BaseTree
    /\ disk = Missing
    /\ clock = 1
    /\ nextToken = 1
    /\ passes = 0
    /\ PassAtRest

RunLoopCall ==
    /\ pc = "runloop_call"
    /\ \E listing \in Listings(arg.files) :
          ret' = thin_run_loop(arg.isdir, listing, arg.import_ok, arg.protected)
    /\ pc' = "runloop_return"
    /\ UNCHANGED <<yaml_importable, suspended, backlog, overrides, files, disk, state, dry, verif, selected_info,
                   executor_output, blocking, clock, nextToken, passes, batch_complete, arg>>

SpecRunLoop == InitRunLoop /\ [][RunLoopCall]_vars

FileStory(f) == _load_any(f.content).dict

\* the stories of the backlog that are ready with every dependency done
EligibleStories ==
    {FileStory(f) : f \in {g \in arg.files :
        /\ ParsesToObjectWithId(g)
        /\ Get(FileStory(g), "status", "ready") = "ready"
        /\ LET deps == Get(FileStory(g), "dependencies", <<>>)
           IN  \A i \in 1..Len(deps) :
                   \E h \in arg.files : /\ ParsesToObjectWithId(h)
                                        /\ FileStory(h).id = deps[i]
                                        /\ Get(FileStory(h), "status", "ready") = "done"}}

\* C26: thin_run_loop returns status no_ready_story with selected and
\* preflight both null when no story is eligible; otherwise the plan of the
\* highest-priority eligible story, with status ready_to_execute exactly when
\* the preflight is ok and the preflight classification otherwise; it changes
\* no story status and no file.
C26_ThinRunLoop ==
    [][ pc = "runloop_call" =>
          /\ files' = files
          /\ disk' = disk
          /\ "raised" \notin DOMAIN ret'
          /\ IF EligibleStories = {}
             THEN ret' = [selected |-> Null, preflight |-> Null, status |-> "no_ready_story"]
             ELSE /\ \E e \in EligibleStories :
                        /\ ret'.selected.story_id = e.id
                        /\ ret'.selected.allowed_paths = e.allowed_paths
                        /\ \A o \in EligibleStories :
                               ("num" \in DOMAIN o.priority /\ "num" \in DOMAIN e.priority)
                                   => e.priority.num <= o.priority.num
                  /\ ret'.preflight =
                         preflight_checks(arg.import_ok, ret'.selected.allowed_paths,
                                          arg.protected)
                  /\ ret'.status = (IF ret'.preflight.ok THEN "ready_to_execute"
                                    ELSE ret'.preflight.classification) ]_vars

(***************************************************************************)
(* workflow.py: pick_next called twice on the same list                    *)
(***************************************************************************)
\* variant: the chosen story is marked in_progress in the caller's list
stories_after_pick_marking(stories) ==
    LET nxt == pick_next(stories)
    IN  [i \in 1..Len(stories) |->
            IF stories[i] = nxt THEN [stories[i] EXCEPT !.status = "in_progress"]
            ELSE stories[i]]

\* lines 81-91: the caller's list after the call; no statement of pick_next
\* or _deps_satisfied assigns to the list or to a story
stories_after_pick(stories) == stories

PickOnce ==
    /\ pc = "pick_call"
    /\ ret' = <<pick_next(arg)>>
    /\ arg' = stories_after_pick(arg)
    /\ pc' = "picked_once"
    /\ UNCHANGED <<yaml_importable, suspended, backlog, overrides, files, disk, state, dry, verif, selected_info,
                   executor_output, blocking, clock, nextToken, passes, batch_complete>>

PickTwice ==
    /\ pc = "picked_once"
    /\ ret' = Append(ret, pick_next(arg))
    /\ arg' = stories_after_pick(arg)
    /\ pc' = "picked_twice"
    /\ UNCHANGED <<yaml_importable, suspended, backlog, overrides, files, disk, state, dry, verif, selected_info,
                   executor_output, blocking, clock, nextToken, passes, batch_complete>>

SpecPickTwice == InitPick /\ [][PickOnce \/ PickTwice]_vars

SameStoryTwice(results) == results[1] = results[2]

BacklogDirFiles(fs) == {p \in DOMAIN fs : dirname(p) = <<"backlog">>}

\* C29: the synthesized fix-gate story exists only in memory for one pass: no
\* pass writes it to the backlog directory or to the stories list of the
\* persisted state document.
C29_FixGateNeverPersisted ==
    /\ BacklogDirFiles(files) = {backlog[i]._source_file : i \in 1..Len(backlog)}
    /\ \A i \in 1..Len(PersistedStories(disk)) : PersistedStories(disk)[i].id # FIX_GATE_ID

(***************************************************************************)
(* Passes with an operator who creates the override a blocked pass asks for *)
(***************************************************************************)
\* lines 733-742: the operator runs the printed command, which writes
\* overrides/<sid>.override.json with allow_paths [blocked_path]
CreateOverride ==
    /\ pc = "idle"
    /\ executor_output # Null
    /\ executor_output.classification = BLOCKED_NEEDS_OVERRIDE
    /\ selected_info.chosen.id \notin DOMAIN overrides
    /\ overrides' = [s \in DOMAIN overrides \cup {selected_info.chosen.id} |->
                        IF s = selected_info.chosen.id
                        THEN Override(s, <<executor_output.blocked_path>>)
                        ELSE overrides[s]]
    /\ UNCHANGED <<pc, yaml_importable, suspended, backlog, files, disk, state, dry, verif, selected_info,
                   executor_output, blocking, clock, nextToken, passes, batch_complete,
                   arg, ret>>

InitOverride == Init /\ overrides = NoOverrides

NextOverride == Next \/ CreateOverride

SpecOverride == InitOverride /\ [][NextOverride]_vars

\* the stories the persisted document holds as blocked and for which the
\* operator has created the override
BlockedWithOverride ==
    {backlog[i].id : i \in {j \in 1..Len(backlog) :
        /\ backlog[j].id \in DOMAIN overrides
        /\ CurrentStatus(disk, backlog[j]) = "blocked"}}

NoStoryReady ==
    \A i \in 1..Len(backlog) : CurrentStatus(disk, backlog[i]) # "ready"

\* C30: after a pass blocked a story with blocked_needs_override and the
\* operator created the suggested override, a rerun with passing health checks
\* selects the story again and executes it, so that its status leaves blocked.
\* Stated for the rerun in which no other story is ready: the selection step
\* must choose such a story.
C30_OverrideUnblocksStory ==
    [][ (pc = "loaded" /\ ~fix_gate_needed /\ BlockedWithOverride # {} /\ NoStoryReady)
            => /\ selected_info' # Null
               /\ selected_info'.chosen.id \in BlockedWithOverride ]_vars

(***************************************************************************)
(* Passes that can be interrupted between the two saves of main            *)
(***************************************************************************)
\* the process is killed after the save_state of line 727 and before the
\* outcome is recorded (lines 728-771): the memory of the pass is lost, the
\* state document and the workspace stay as they are
Interrupt ==
    /\ pc = "selected"
    /\ pc' = "idle"
    /\ state' = Null
    /\ UNCHANGED <<yaml_importable, suspended, backlog, overrides, files, disk, dry, verif, selected_info,
                   executor_output, blocking, clock, nextToken, passes, batch_complete,
                   arg, ret>>

NextInterrupt == Next \/ Interrupt

SpecInterrupt == Init /\ [][NextInterrupt]_vars

\* the backlog stories the persisted document holds as in_progress
InProgressOnDisk ==
    {backlog[i].id : i \in {j \in 1..Len(backlog) :
        CurrentStatus(disk, backlog[j]) = "in_progress"}}

\* C31: a story persisted as in_progress by a pass that was interrupted before
\* recording the outcome is selected again by a later pass and reaches done or
\* blocked.  Stated for the later pass with passing health checks in which no
\* other story is ready: the selection step must choose such a story.
C31_InterruptedStoryResumed ==
    [][ (pc = "loaded" /\ ~fix_gate_needed /\ InProgressOnDisk # {} /\ NoStoryReady)
            => /\ selected_info' # Null
               /\ selected_info'.chosen.id \in InProgressOnDisk ]_vars

(***************************************************************************)
(* Passes on a healthy workspace: every story ready, no path of a story in *)
(* the protected zone at the start, every pytest run passing               *)
(***************************************************************************)
\* backlogs of two ready stories A and B; B may depend on A (never A on B, so
\* the dependency graph is acyclic) and may list the package marker A lists
HealthyBacklogs ==
    LET As == {Story("A", prio, "ready", <<>>, paths) :
                   prio \in {0, 1}, paths \in {<<>>, <<P_init_x>>}}
        Bs == {Story("B", 1, "ready", deps, paths) :
                   deps \in {<<>>, <<"A">>}, paths \in {<<>>, <<P_init_x>>}}
    IN  {<<b, a>> : a \in As, b \in Bs}

InitHealthy ==
    /\ pc = "idle"
    /\ backlog \in HealthyBacklogs
    /\ overrides = NoOverrides
    /\ files = TreeOf(backlog)
    /\ disk = Missing
    /\ state = Null
    /\ dry = FALSE
    /\ verif = Null
    /\ selected_info = Null
    /\ executor_output = Null
    /\ blocking = <<>>
    /\ clock = 1
    /\ nextToken = 1
    /\ passes = 0
    /\ batch_complete = FALSE
    /\ yaml_importable = TRUE
    /\ suspended = Null
    /\ PureIdle

\* Load with a passing initial verification (line 701)
LoadHealthy == Load /\ verif'.ok

\* Execute with a passing pytest run of the executor (lines 575-577)
ExecuteHealthy ==
    /\ Execute
    /\ \/ executor_output'.classification = BLOCKED_NEEDS_OVERRIDE
       \/ VerificationPassed(executor_output')

NextHealthy == LoadHealthy \/ Select \/ ExecuteHealthy \/ Report

\* a step of a pass: every step of main moves the pass to its next position,
\* and a step is possible unless the last pass has ended
PassAdvances ==
    /\ pc # "idle" \/ passes < MaxPasses
    /\ pc' \in {"idle", "loaded", "selected", "executed"} \ {pc}

\* the operator reruns the orchestrator, and a pass that started runs to its
\* end: main has no loop and no wait, so a step that is possible is taken
SpecHealthy == InitHealthy /\ [][NextHealthy]_vars /\ WF_pc(PassAdvances)

AllStoriesDone == \A i \in 1..Len(backlog) : CurrentStatus(disk, backlog[i]) = "done"

\* C32: on a backlog with an acyclic dependency graph whose stories all start
\* ready and without a protected-path conflict, and with every verification
\* passing, repeated passes eventually mark every story done.
C32_EveryStoryEventuallyDone == <>AllStoriesDone

(***************************************************************************)
(* Passes on a workspace whose state document declares a protected path    *)
(***************************************************************************)
P_env == <<".", "env">>

\* the operator has declared the package marker of app/x, which does not exist
\* yet, and the file .env protected
InitDeclared ==
    /\ pc = "idle"
    /\ backlog \in Backlogs
    /\ overrides \in {NoOverrides, OverridesFor("A", <<P_init_x>>)}
    /\ files = TreeOf(backlog)
    /\ disk = DeclaredState({P_init_x, P_env})
    /\ state = Null
    /\ dry = FALSE
    /\ verif = Null
    /\ selected_info = Null
    /\ executor_output = Null
    /\ blocking = <<>>
    /\ clock = 1
    /\ nextToken = 1
    /\ passes = 0
    /\ batch_complete = FALSE
    /\ yaml_importable = TRUE
    /\ suspended = Null
    /\ PureIdle

SpecDeclared == InitDeclared /\ [][Next]_vars

\* the files a step creates
CreatedFiles == DOMAIN files' \ DOMAIN files

\* C33: an executor invocation in run mode, on a normal story or on the
\* fix-gate story, creates no file at a path of the protected set unless an
\* override covers the path.
C33_NoProtectedFileCreated ==
    [][ (pc = "selected" /\ ~dry)
            => \A p \in CreatedFiles :
                  p \in state.protected_zone.paths => ok_by_override(p, overrides) ]_vars

(***************************************************************************)
(* The executor's effect on the workspace tree                             *)
(***************************************************************************)
\* the workspace files named by the allowed_paths of a story: the path with
\* "/" separators and without a leading "./"
ListedFiles(story) ==
    {normalize_path(story.allowed_paths[i]) : i \in 1..Len(story.allowed_paths)}

\* C34: the executor leaves every existing workspace file as it is; the files
\* it writes are __init__.py markers that did not exist: for a normal story at
\* paths its allowed_paths list and whose parent directory exists, for the
\* fix-gate in directories under app/, tests/ or test/ that hold a .py file;
\* and the touched list of the fix-gate is within the derived-safe set.
C34_ExecutorOnlyAddsMarkers ==
    [][ (pc = "selected")
            => /\ \A p \in DOMAIN files : p \in DOMAIN files' /\ files'[p] = files[p]
               /\ \A p \in CreatedFiles :
                     /\ basename(p) = InitPy
                     /\ IF ExecutedStory.id = FIX_GATE_ID
                        THEN /\ dirname(p)[1] \in FixGateBases
                             /\ listdir(files, dirname(p)) \cap PyNames # {}
                        ELSE /\ p \in ListedFiles(ExecutedStory)
                             /\ isdir(dirname(p))
               /\ ExecutedStory.id = FIX_GATE_ID
                     => Range(executor_output'.change_set.files)
                            \subseteq derive_allowed_for_fix_gate(files) ]_vars

(***************************************************************************)
(* The protected zone across loads                                         *)
(***************************************************************************)
\* protected_zone.paths of the state document on disk
PersistedZone(d) ==
    IF Loadable(d)
    THEN Get(Get(json_loads(d.text), "protected_zone", [paths |-> {}]), "paths", {})
    ELSE {}

\* the manifest paths of a state whose last_story is a story with status done
DeliveredPaths(st) ==
    {st.artifacts_manifest[i].path : i \in {j \in 1..Len(st.artifacts_manifest) :
        \E k \in 1..Len(st.stories) :
            /\ st.stories[k].id = Get(st.artifacts_manifest[j], "last_story", None)
            /\ st.stories[k].status = "done"}}

\* C35: after a state load the protected zone holds every infrastructure-hint
\* path, every path of the persisted protected zone and every manifest path
\* whose last_story is a done story, so the zone never loses a path.
C35_ProtectedZoneContains ==
    [][ (pc = "idle")
            => /\ PROTECTED_INFRA_HINTS \subseteq state'.protected_zone.paths
               /\ PersistedZone(disk) \subseteq state'.protected_zone.paths
               /\ DeliveredPaths(state') \subseteq state'.protected_zone.paths ]_vars

(***************************************************************************)
(* Two orchestrator processes on the same workspace.  The workspace tree,  *)
(* the state document and the overrides are shared; every variable of main *)
(* is the process's own.  The steps of main are those of one pass; the     *)
(* scheduler may pass control to the other process between two steps.      *)
(***************************************************************************)
\* main's variables in the running process
Locals ==
    [ pc |-> pc, state |-> state, dry |-> dry, verif |-> verif,
      selected_info |-> selected_info, executor_output |-> executor_output,
      blocking |-> blocking, batch_complete |-> batch_complete ]

\* main's variables in a process that has not started its pass
FreshProcess ==
    [ pc |-> "idle", state |-> Null, dry |-> FALSE, verif |-> Null,
      selected_info |-> Null, executor_output |-> Null,
      blocking |-> <<>>, batch_complete |-> FALSE ]

\* the scheduler suspends the running process and resumes the other
Switch ==
    /\ suspended # Null
    /\ pc' = suspended.pc
    /\ state' = suspended.state
    /\ dry' = suspended.dry
    /\ verif' = suspended.verif
    /\ selected_info' = suspended.selected_info
    /\ executor_output' = suspended.executor_output
    /\ blocking' = suspended.blocking
    /\ batch_complete' = suspended.batch_complete
    /\ suspended' = Locals
    /\ UNCHANGED <<yaml_importable, backlog, overrides, files, disk, clock, nextToken,
                   passes, arg, ret>>

\* story A, and a story B that may depend on it
ConcurrentBacklogs ==
    {<<Story("B", 1, "ready", deps, <<>>), Story("A", 0, "ready", <<>>, <<P_init_x>>)>> :
        deps \in {<<>>, <<"A">>}}

InitConcurrent ==
    /\ pc = "idle"
    /\ backlog \in ConcurrentBacklogs
    /\ overrides = NoOverrides
    /\ files = TreeOf(backlog)
    /\ disk = Missing
    /\ state = Null
    /\ dry = FALSE
    /\ verif = Null
    /\ selected_info = Null
    /\ executor_output = Null
    /\ blocking = <<>>
    /\ clock = 1
    /\ nextToken = 1
    /\ passes = 0
    /\ batch_complete = FALSE
    /\ yaml_importable = TRUE
    /\ suspended = FreshProcess
    /\ arg = Null /\ ret = Null

\* each of the two processes runs main once
LoadOnce == Load /\ verif = Null

NextConcurrent == LoadOnce \/ Select \/ Execute \/ Report \/ Switch

SpecConcurrent == InitConcurrent /\ [][NextConcurrent]_vars


\* C36: two interleaved passes race on the state document.  Nothing orders
\* the two read-modify-write sequences: each save of a pass (after the
\* selection, after the execution) replaces the document by the pass's own
\* copy, whatever the other pass has written since that copy was loaded.
C36_SaveWritesOwnCopy ==
    [][ (pc \in {"loaded", "selected"} /\ suspended' = suspended /\ selected_info' # Null)
            => disk' = Text(json_dumps(state')) ]_vars

\* the race: both passes selected and executed story A; the suspended pass
\* recorded it done with throughput 1, and the document now holds the running
\* pass's copy, with A blocked, one attempt and throughput 0
C36_Witness ==
    /\ pc = "executed" /\ suspended.pc = "executed"
    /\ selected_info # Null /\ suspended.selected_info # Null
    /\ selected_info.chosen.id = "A" /\ suspended.selected_info.chosen.id = "A"
    /\ StatusOf(suspended.state, "A", None) = "done"
    /\ suspended.state.metrics.throughput = 1
    /\ CurrentStatus(disk, backlog[2]) = "blocked"
    /\ \E k \in 1..Len(PersistedStories(disk)) :
          PersistedStories(disk)[k].id = "A" /\ PersistedStories(disk)[k].attempts = 1
    /\ json_loads(disk.text).metrics.throughput = 0

(***************************************************************************)
(* orchestrator.py: retry_read and retry_write, one step per attempt       *)
(***************************************************************************)
\* the default of the parameter `attempts`; no caller passes another value
RETRY_ATTEMPTS == 3

\* variant: the test for the last attempt is off by one
raises_on_after(i, attempts) == i = attempts

\* lines 114 and 126: `if i == attempts - 1: raise`
raises_on(i, attempts) == i = attempts - 1

P_state_json == <<".", "orchestrator", "/", "state.json">>

RetryPaths == {P_main, P_init_x, P_state_json, <<"lib", "/", "util.py">>}

RetryCalls ==
    {[fn |-> "retry_read", path |-> p, data |-> None, i |-> 0, log |-> <<>>] :
        p \in RetryPaths}
    \cup {[fn |-> "retry_write", path |-> p, data |-> d, i |-> 0, log |-> <<>>] :
        p \in RetryPaths, d \in {"story_marker", "state_text"}}

InitRetry ==
    /\ pc = "retry_call"
    /\ arg \in RetryCalls
    /\ ret = Null
    /\ files = BaseTree
    /\ disk = Missing
    /\ clock = 1
    /\ nextToken = 1
    /\ passes = 0
    /\ PassAtRest

\* the code before the loop: retry_write's os.makedirs (line 119), which is
\* outside the try and may raise; retry_read has none
RetryEnter ==
    /\ pc = "retry_call"
    /\ \/ /\ pc' = "retry_loop"
          /\ UNCHANGED ret
       \/ /\ arg.fn = "retry_write"
          /\ ret' = Raised("OSError")
          /\ pc' = "retry_return"
    /\ UNCHANGED <<yaml_importable, suspended, backlog, overrides, files, disk, state, dry, verif,
                   selected_info, executor_output, blocking, clock, nextToken, passes,
                   batch_complete, arg>>

\* one iteration of `for i in range(attempts)` (lines 109-116, 120-128): the
\* open/read or open/write succeeds and the function returns, or it raises and
\* the handler re-raises on the last attempt and sleeps otherwise.  A write
\* that fails after open(path, "w") has truncated the file.
RetryAttempt ==
    /\ pc = "retry_loop"
    /\ IF arg.i >= RETRY_ATTEMPTS
       THEN /\ ret' = [value |-> None]
            /\ pc' = "retry_return"
            /\ UNCHANGED <<arg, files>>
       ELSE \/ /\ arg.fn = "retry_read" => arg.path \in DOMAIN files
               /\ arg' = [arg EXCEPT !.log = Append(@, "ok")]
               /\ ret' = [value |-> IF arg.fn = "retry_read" THEN files[arg.path] ELSE None]
               /\ files' = IF arg.fn = "retry_write"
                           THEN write(files, arg.path, arg.data) ELSE files
               /\ pc' = "retry_return"
            \/ /\ \/ UNCHANGED files
                  \/ arg.fn = "retry_write" /\ files' = write(files, arg.path, "")
               /\ IF raises_on(arg.i, RETRY_ATTEMPTS)
                  THEN /\ arg' = [arg EXCEPT !.log = Append(@, "fail")]
                       /\ ret' = Raised("OSError")
                       /\ pc' = "retry_return"
                  ELSE /\ arg' = [arg EXCEPT !.log = Append(@, "fail"), !.i = @ + 1]
                       /\ pc' = "retry_loop"
                       /\ UNCHANGED ret
    /\ UNCHANGED <<yaml_importable, suspended, backlog, overrides, disk, state, dry, verif,
                   selected_info, executor_output, blocking, clock, nextToken, passes,
                   batch_complete>>

NextRetry == RetryEnter \/ RetryAttempt

\* an attempt ends (open, read, write and time.sleep(0.25) return or raise)
SpecRetry == InitRetry /\ [][NextRetry]_vars /\ WF_vars(NextRetry)

AllFailed(log) == \A k \in 1..Len(log) : log[k] = "fail"

\* what holds of the attempts made so far, in every state of a call
RetryBounded ==
    /\ Len(arg.log) <= 3
    /\ AllFailed(SubSeq(arg.log, 1, Len(arg.log) - 1))
    /\ pc # "retry_return" => AllFailed(arg.log) /\ Len(arg.log) < 3
    /\ pc = "retry_return" =>
          IF ret = Raised("OSError")
          THEN /\ AllFailed(arg.log)
               /\ Len(arg.log) = 3 \/ (arg.fn = "retry_write" /\ arg.log = <<>>)
          ELSE /\ ret = [value |-> IF arg.fn = "retry_read" THEN files[arg.path] ELSE None]
               /\ arg.log # <<>>
               /\ arg.log[Len(arg.log)] = "ok"

\* C37: retry_read and retry_write make at most 3 attempts, return at the
\* first attempt that succeeds without a further attempt, raise the error
\* after the third consecutive failure, and always terminate.
C37_RetryTerminates == []RetryBounded /\ <>(pc = "retry_return")

\* retry_write has raised after three failed attempts, the file truncated
C37_Witness ==
    /\ pc = "retry_return"
    /\ arg.fn = "retry_write"
    /\ arg.log = <<"fail", "fail", "fail">>
    /\ ret = Raised("OSError")
    /\ arg.path \in DOMAIN files /\ files[arg.path] = ""

(***************************************************************************)
(* The counters and timestamps of the story records                        *)
(***************************************************************************)
\* the ids of the story records of a state document
RecordIds(d) == {PersistedStories(d)[k].id : k \in 1..Len(PersistedStories(d))}

\* a field of the first record of story sid in the document; the default if
\* the document has no record of it
RecordField(d, sid, key, default) ==
    LET list == PersistedStories(d)
        idx  == {k \in 1..Len(list) : list[k].id = sid}
    IN  IF idx = {} THEN default
        ELSE Get(list[CHOOSE k \in idx : \A j \in idx : k <= j], key, default)

\* the step is the selection of story sid (lines 722-727)
Selects(sid) == pc = "loaded" /\ selected_info' # Null /\ selected_info'.chosen.id = sid

\* C38: the attempts counter of a story record grows by one in the step that
\* selects the story and changes in no other step; started_at is set by the
\* first selection and keeps its value; completed_at changes exactly in the
\* step in which the story becomes done.
C38_AttemptsAndTimestamps ==
    [][ \A sid \in RecordIds(disk) \cup RecordIds(disk') :
          LET a0 == RecordField(disk, sid, "attempts", 0)
              a1 == RecordField(disk', sid, "attempts", 0)
              s0 == RecordField(disk, sid, "started_at", NoTime)
              s1 == RecordField(disk', sid, "started_at", NoTime)
              c0 == RecordField(disk, sid, "completed_at", NoTime)
              c1 == RecordField(disk', sid, "completed_at", NoTime)
              becomesDone == /\ RecordField(disk', sid, "status", None) = "done"
                             /\ RecordField(disk, sid, "status", None) \notin {None, "done"}
          IN  /\ a1 = IF Selects(sid) THEN a0 + 1 ELSE a0
              /\ s0 # NoTime => s1 = s0
              /\ (s0 = NoTime /\ s1 # NoTime) <=> (Selects(sid) /\ a0 = 0)
              /\ (c1 # c0) <=> becomesDone ]_vars

(***************************************************************************)
(* The batch-complete report                                               *)
(***************************************************************************)
\* C39: a pass reports the batch complete only when every backlog story is
\* done (none ready, in_progress or blocked), the verification of the pass
\* succeeded and the coverage target is met.
C39_BatchCompleteMeansAllDone ==
    batch_complete =>
        /\ \A i \in 1..Len(backlog) : CurrentStatus(disk, backlog[i]) = "done"
        /\ verif.ok
        /\ verif.cov >= COVERAGE_TARGET

====
